---- MODULE Spec2Model ----
(***************************************************************************)
(* Verification model of the reachy-brain voice turn-taking and face       *)
(* identity code.                                                           *)
(*                                                                         *)
(*   SpecRegistry : FaceRegistry (src/face_registry.py)                     *)
(*   SpecVad      : AudioBuffer.add_frame (src/wireless_voice.py)           *)
(*   SpecAudio    : AudioStream.audio_generator / play_audio (src/audio.py) *)
(*   SpecTurn     : _process_speech of ClawdbotHandler and of               *)
(*                  WirelessVoiceClient                                     *)
(*   SpecRecv     : ClawdbotHandler.receive                                 *)
(*   SpecBridge   : continuous_listener / play_wav_data                     *)
(*                  (src/bridge/reachy_bridge.py)                           *)
(*   SpecServer   : the push voice server (src/voice_loop.py)               *)
(*   SpecMemoryLive : ConversationMemory (src/reachy_agent/memory.py)       *)
(*   SpecMainLive : the supervisor loop (src/main.py)                       *)
(*                                                                         *)
(* Each specification moves the variables of its own component and leaves  *)
(* the others at their initial values.                                      *)
(***************************************************************************)
EXTENDS Integers, Sequences, FiniteSets, TLC

VARIABLES
    \* ---- FaceRegistry ----
    faces,                  \* FaceRegistry._faces: sequence of RegisteredFace
    last_identified_user,   \* FaceRegistry._last_identified_user
    consecutive_misses,     \* FaceRegistry._consecutive_misses
    last_miss_embedding,    \* FaceRegistry._last_miss_embedding
    registry_file,          \* the document at REGISTRY_PATH
    uuid_count,             \* number of uuid4() values drawn so far
    loaded,                 \* history: the document load() read at construction
    calls,                  \* history: the calls made on the registry, in order
    storage_writable,       \* writing REGISTRY_PATH succeeds
    \* ---- AudioBuffer ----
    frames,                 \* AudioBuffer.frames
    is_speaking,            \* AudioBuffer.is_speaking
    silence_frames,         \* AudioBuffer.silence_frames
    speech_frames,          \* AudioBuffer.speech_frames
    noise_floor,            \* amplitude of the frames captured when nobody speaks
    fed,                    \* history: the RMS energy of every frame fed
    returned,               \* history: what the last add_frame returned
    utterances,             \* history: the utterances returned so far
    \* ---- AudioStream ----
    stream_is_speaking,     \* AudioStream._is_speaking
    stop_speaking_event,    \* AudioStream._stop_speaking_event is set
    running,                \* AudioStream._running
    empty_read_count,       \* AudioStream._empty_read_count
    gen_pc,                 \* where the audio_generator coroutine is suspended
    play_pc,                \* where the play_audio coroutine is suspended
    play_i,                 \* chunks of the current playback pushed so far
    play_len,               \* chunks in the current playback
    plays,                  \* play_audio calls made so far
    yields,                 \* history: chunks yielded so far
    yielded_while_speaking, \* history: _is_speaking at the latest yield
    \* ---- _process_speech ----
    handler,                \* the handler class this process runs
    memory_client,          \* ClawdbotHandler._memory_client is not None
    is_processing,          \* ClawdbotHandler._is_processing / WirelessVoiceClient.is_processing
    lock_locked,            \* ClawdbotHandler._processing_lock is held
    lock_waiters,           \* tasks queued in _processing_lock.acquire()
    task_pc,                \* where each _process_speech task is suspended
    task_response,          \* the response of the task's chat call is not empty
    task_log,               \* history: what happened in each task
    \* ---- reachy_bridge ----
    listening_active,       \* reachy_bridge.listening_active
    listener_pc,            \* where the continuous_listener thread is
    bridge_accumulated_chunks, \* accumulated_chunks of continuous_listener
    bridge_silence_counter, \* silence_counter of continuous_listener
    bridge_playing,         \* play_wav_data is between start_playing and stop_playing
    recorded_while_playing, \* history: the chunk being recorded overlaps a playback
    bridge_records,         \* record_chunk_sdk calls made so far
    bridge_plays,           \* play_wav_data calls made so far
    bridge_pushed,          \* history: the chunk lists handed to send_audio_to_macos
    \* ---- voice_loop ----
    server_running,         \* voice_loop.server_running
    accumulated_chunks,     \* voice_loop.accumulated_chunks
    quiet,                  \* time.time() - last_audio_time > SPEECH_TIMEOUT
    post_pc,                \* where do_POST is in the HTTP thread
    timeout_pc,             \* where check_speech_timeout is in its thread
    chunks_to_process,      \* local variable of check_speech_timeout
    posts,                  \* chunks accepted by POST /audio so far
    handed,                 \* history: the argument of every process_speech_sequence call
    pipeline_pc,            \* where every process_speech_sequence thread is
    \* ---- ClawdbotHandler.receive ----
    recv_is_speaking,       \* ClawdbotHandler._is_speaking
    recv_silence_frames,    \* ClawdbotHandler._silence_frames
    recv_speech_frames,     \* ClawdbotHandler._speech_frames
    input_buffer,           \* ClawdbotHandler.input_buffer, the numbers of its frames
    recv_is_processing,     \* ClawdbotHandler._is_processing, as receive reads it
    recv_started,           \* _process_speech tasks that have set _is_processing
    recv_fed,               \* history: every frame received was above the threshold or not
    recv_tasks,             \* history: the audio handed to every _process_speech task
    \* ---- ConversationMemory ----
    message_queue,          \* ConversationMemory._message_queue, the items in it
    queue_is_none,          \* ConversationMemory._message_queue is None
    worker_shutdown,        \* ConversationMemory._worker_shutdown is set
    worker_pc,              \* where the _message_worker task is suspended
    worker_item,            \* local variable item of _message_worker
    close_pc,               \* where close() is
    enqueues,               \* _enqueue_message calls made so far
    attempted,              \* history: add_messages calls made for each message
    dropped,                \* history: the messages given up after a failure
    queued_before_close,    \* history: the messages put before close() was called
    pending_at_close,       \* history: the messages not yet saved when close() was called
    \* ---- main ----
    main_pc,                \* where main() / run_agent() is suspended
    restarts,               \* local variable restarts of main
    shutdown_event,         \* shutdown_event is set
    agent_task,             \* state of the task running agent.run()
    should_restart,         \* what run_agent returns
    starts,                 \* history: agent.run() tasks created so far
    ends                    \* history: how every run ended, and under shutdown or not

registryVars == <<faces, last_identified_user, consecutive_misses,
                  last_miss_embedding, registry_file, uuid_count,
                  loaded, calls, storage_writable>>

vadVars == <<frames, is_speaking, silence_frames, speech_frames,
             noise_floor, fed, returned, utterances>>

streamVars == <<stream_is_speaking, stop_speaking_event, running,
                empty_read_count, gen_pc, play_pc, play_i, play_len, plays,
                yields, yielded_while_speaking>>

turnVars == <<handler, memory_client, is_processing, lock_locked,
              lock_waiters, task_pc, task_response, task_log>>

bridgeVars == <<listening_active, listener_pc, bridge_accumulated_chunks,
                bridge_silence_counter, bridge_playing, recorded_while_playing,
                bridge_records, bridge_plays, bridge_pushed>>

serverVars == <<server_running, accumulated_chunks, quiet, post_pc,
                timeout_pc, chunks_to_process, posts, handed, pipeline_pc>>

\* The components added to the four above.
recvVars == <<recv_is_speaking, recv_silence_frames, recv_speech_frames,
              input_buffer, recv_is_processing, recv_started, recv_fed,
              recv_tasks>>

memoryVars == <<message_queue, queue_is_none, worker_shutdown, worker_pc,
                worker_item, close_pc, enqueues, attempted, dropped,
                queued_before_close, pending_at_close>>

mainVars == <<main_pc, restarts, shutdown_event, agent_task, should_restart,
              starts, ends>>

moreVars == <<bridgeVars, serverVars, recvVars, memoryVars, mainVars>>

vars == <<registryVars, vadVars, streamVars, turnVars, moreVars>>

\* What the actions of one component leave alone.
notRegistry == <<vadVars, streamVars, turnVars, moreVars>>
notVad == <<registryVars, streamVars, turnVars, moreVars>>
notStream == <<registryVars, vadVars, turnVars, moreVars>>
notTurn == <<registryVars, vadVars, streamVars, moreVars>>
coreVars == <<registryVars, vadVars, streamVars, turnVars>>
notBridge == <<coreVars, serverVars, recvVars, memoryVars, mainVars>>
notServer == <<coreVars, bridgeVars, recvVars, memoryVars, mainVars>>
notRecv == <<coreVars, bridgeVars, serverVars, memoryVars, mainVars>>
notMemory == <<coreVars, bridgeVars, serverVars, recvVars, mainVars>>
notMain == <<coreVars, bridgeVars, serverVars, recvVars, memoryVars>>

(***************************************************************************)
(*                              FaceRegistry                                *)
(***************************************************************************)

\* Distances are in units of 0.1: MATCH_THRESHOLD = 0.6.
MATCH_THRESHOLD == 6
MAX_EMBEDDINGS_PER_USER == 10
NEW_USER_CONSECUTIVE_MISSES == 3

\* Number of registry calls explored.
MaxOps == 4

\* Number of registry calls explored when the storage has an outage.
MaxOutageOps == 3

\* Python None, for a user id and for an embedding.
NoUser == "None"
NoEmbedding == <<>>

\* Face embeddings: points of the plane, coordinates in units of 0.1.
\* (0,0)-(3,4), (3,4)-(6,8) and (3,4)-(0,8) are at distance 0.5 (a match);
\* (0,8)-(6,8) are at distance 0.6 exactly (not a match: the test is strict);
\* (0,0)-(6,8) and (0,0)-(0,8) are at distance 1.0 and 0.8.
Embeddings == { <<0, 0>>, <<3, 4>>, <<6, 8>>, <<0, 8>> }

\* Ids an operator enrolls or deletes by name.
Names == { "kaya" }

\* np.linalg.norm(a - b), squared.
NormSq(a, b) == (a[1] - b[1]) * (a[1] - b[1]) + (a[2] - b[2]) * (a[2] - b[2])

RECURSIVE MinOver(_, _)
\* min(np.linalg.norm(embedding - e) for e in self.embeddings), squared.
MinOver(embs, e) ==
    IF Len(embs) = 1 THEN NormSq(e, embs[1])
    ELSE LET rest == MinOver(Tail(embs), e)
             d    == NormSq(e, embs[1])
         IN IF d < rest THEN d ELSE rest

best_distance(face, e) == MinOver(face.embeddings, e)

\* add_embedding that drops the newest embedding at capacity.
add_embedding_drops_newest(embs, e) ==
    IF Len(embs) >= MAX_EMBEDDINGS_PER_USER
    THEN Append(SubSeq(embs, 1, Len(embs) - 1), e)
    ELSE Append(embs, e)

\* RegisteredFace.add_embedding: drop the oldest at capacity, then append.
add_embedding(embs, e) ==
    IF Len(embs) >= MAX_EMBEDDINGS_PER_USER
    THEN Append(Tail(embs), e)
    ELSE Append(embs, e)

\* The registry object as one record.
Self == [ faces                |-> faces,
          last_identified_user |-> last_identified_user,
          consecutive_misses   |-> consecutive_misses,
          last_miss_embedding  |-> last_miss_embedding,
          file                 |-> registry_file,
          uuid_count           |-> uuid_count,
          writable             |-> storage_writable,
          raised               |-> FALSE ]

\* The document save() writes: {"faces": [{"user_id", "embeddings"}, ...]}.
Document(fs) ==
    [ exists |-> TRUE,
      faces  |-> [ i \in 1..Len(fs) |->
                     [ user_id    |-> fs[i].user_id,
                       embeddings |-> fs[i].embeddings ] ] ]

NoFile == [ exists |-> FALSE, faces |-> <<>> ]

\* save that writes nothing.
save_writes_nothing(self) == self

\* FaceRegistry.save: the document replaces the file; when the write
\* raises (OSError from mkdir or write_text), the file is as it was.
save(self) ==
    IF self.writable THEN [ self EXCEPT !.file = Document(self.faces) ]
    ELSE [ self EXCEPT !.raised = TRUE ]

\* What a call returns after save(): save() is not guarded, so its
\* exception leaves the call and the call returns nothing.
AfterSave(self, ret, nothing) == IF self.writable THEN ret ELSE nothing

\* FaceRegistry.load: an empty registry, filled from the document if any.
load(file) ==
    [ faces                |-> IF file.exists
                               THEN [ i \in 1..Len(file.faces) |->
                                        [ user_id    |-> file.faces[i].user_id,
                                          embeddings |-> file.faces[i].embeddings ] ]
                               ELSE <<>>,
      last_identified_user |-> NoUser,
      consecutive_misses   |-> 0,
      last_miss_embedding  |-> NoEmbedding,
      file                 |-> file,
      uuid_count           |-> 0,
      writable             |-> TRUE,
      raised               |-> FALSE ]

\* f"user_{uuid.uuid4().hex[:8]}": the n-th value drawn is a fresh one.
uuid4(n) == "user_" \o ToString(n)

\* _create_new_user that stores the identity whether or not it has a face.
_create_new_user_stores_faceless(self, e) ==
    LET user_id == uuid4(self.uuid_count + 1)
        drawn   == [ self EXCEPT !.uuid_count = @ + 1 ]
        stored  == save([ drawn EXCEPT
                           !.faces = Append(@, [ user_id |-> user_id,
                                                 embeddings |->
                                                   IF e # NoEmbedding THEN <<e>>
                                                   ELSE <<>> ]) ])
    IN [ self |-> [ stored EXCEPT !.last_identified_user = user_id,
                                  !.last_miss_embedding = NoEmbedding ],
         ret  |-> user_id ]

\* FaceRegistry._create_new_user: when save() raises, the identity has been
\* appended and the statements after the save are not reached.
_create_new_user(self, e) ==
    LET user_id == uuid4(self.uuid_count + 1)
        drawn   == [ self EXCEPT !.uuid_count = @ + 1 ]
        stored  == IF e # NoEmbedding
                   THEN save([ drawn EXCEPT
                           !.faces = Append(@, [ user_id |-> user_id,
                                                 embeddings |-> <<e>> ]) ])
                   ELSE drawn
    IN IF e # NoEmbedding /\ ~self.writable
       THEN [ self |-> stored, ret |-> NoUser ]
       ELSE [ self |-> [ stored EXCEPT !.last_identified_user = user_id,
                                       !.last_miss_embedding = NoEmbedding ],
              ret  |-> user_id ]

\* The loop of identify: the first face with the smallest best_distance
\* (0 when there is no face).
BestIndex(fs, e) ==
    IF fs = <<>> THEN 0
    ELSE CHOOSE i \in 1..Len(fs) :
           /\ \A j \in 1..Len(fs) : best_distance(fs[i], e) <= best_distance(fs[j], e)
           /\ \A j \in 1..(i - 1) : best_distance(fs[j], e) > best_distance(fs[i], e)

\* best_match and best_dist < MATCH_THRESHOLD
IsMatch(fs, e) ==
    /\ BestIndex(fs, e) # 0
    /\ best_distance(fs[BestIndex(fs, e)], e) < MATCH_THRESHOLD * MATCH_THRESHOLD

\* identify_match that drops the oldest embedding of a full identity and
\* does not store the sample.
identify_match_drops_sample(self, i, e) ==
    [ self |-> save([ self EXCEPT
                  !.last_identified_user = self.faces[i].user_id,
                  !.consecutive_misses = 0,
                  !.last_miss_embedding = NoEmbedding,
                  !.faces[i].embeddings =
                      IF Len(@) >= MAX_EMBEDDINGS_PER_USER THEN Tail(@) ELSE @ ]),
      ret  |-> AfterSave(self, self.faces[i].user_id, NoUser) ]

\* FaceRegistry.identify, the confirmed match (face i is best_match).
identify_match(self, i, e) ==
    [ self |-> save([ self EXCEPT
                  !.last_identified_user = self.faces[i].user_id,
                  !.consecutive_misses = 0,
                  !.last_miss_embedding = NoEmbedding,
                  !.faces[i].embeddings = add_embedding(@, e) ]),
      ret  |-> AfterSave(self, self.faces[i].user_id, NoUser) ]

\* FaceRegistry.identify, no match below the threshold.
identify_miss(self, e) ==
    LET missed == [ self EXCEPT !.consecutive_misses = @ + 1,
                                !.last_miss_embedding = e ]
    IN IF missed.consecutive_misses >= NEW_USER_CONSECUTIVE_MISSES
       THEN _create_new_user([ missed EXCEPT !.consecutive_misses = 0 ], e)
       ELSE IF missed.last_identified_user # NoUser
       THEN [ self |-> missed, ret |-> missed.last_identified_user ]
       ELSE _create_new_user(missed, e)

\* identify that mints an anonymous id for every sample without a face.
identify_mints_without_face(self, e) ==
    IF e = NoEmbedding
    THEN _create_new_user(self, NoEmbedding)
    ELSE IF IsMatch(self.faces, e)
    THEN identify_match(self, BestIndex(self.faces, e), e)
    ELSE identify_miss(self, e)

\* FaceRegistry.identify
identify(self, e) ==
    IF e = NoEmbedding
    THEN IF self.last_identified_user # NoUser
         THEN [ self |-> self, ret |-> self.last_identified_user ]
         ELSE _create_new_user(self, NoEmbedding)
    ELSE IF IsMatch(self.faces, e)
    THEN identify_match(self, BestIndex(self.faces, e), e)
    ELSE identify_miss(self, e)

\* Index of the first face with this id, 0 if there is none.
FirstIndexOf(fs, user_id) ==
    IF \E i \in 1..Len(fs) : fs[i].user_id = user_id
    THEN CHOOSE i \in 1..Len(fs) :
           /\ fs[i].user_id = user_id
           /\ \A j \in 1..(i - 1) : fs[j].user_id # user_id
    ELSE 0

\* register_user that leaves an identity it already holds as it is.
register_user_skips_existing(self, user_id, e) ==
    LET i == FirstIndexOf(self.faces, user_id)
    IN IF i # 0
       THEN [ self |-> save(self), ret |-> AfterSave(self, TRUE, FALSE) ]
       ELSE [ self |-> save([ self EXCEPT
                          !.faces = Append(@, [ user_id |-> user_id,
                                                embeddings |-> <<e>> ]) ]),
              ret  |-> AfterSave(self, TRUE, FALSE) ]

\* FaceRegistry.register_user
register_user(self, user_id, e) ==
    LET i == FirstIndexOf(self.faces, user_id)
    IN IF i # 0
       THEN [ self |-> save([ self EXCEPT
                          !.faces[i].embeddings = add_embedding(@, e) ]),
              ret  |-> AfterSave(self, TRUE, FALSE) ]
       ELSE [ self |-> save([ self EXCEPT
                          !.faces = Append(@, [ user_id |-> user_id,
                                                embeddings |-> <<e>> ]) ]),
              ret  |-> AfterSave(self, TRUE, FALSE) ]

\* self._faces.pop(i)
Pop(fs, i) == [ j \in 1..(Len(fs) - 1) |-> IF j < i THEN fs[j] ELSE fs[j + 1] ]

\* delete_user that pops index -1 when the loop found nothing.
delete_user_pops_last(self, user_id) ==
    LET i == FirstIndexOf(self.faces, user_id)
    IN IF i # 0
       THEN [ self |-> save([ self EXCEPT !.faces = Pop(@, i) ]),
              ret  |-> AfterSave(self, TRUE, FALSE) ]
       ELSE IF self.faces # <<>>
       THEN [ self |-> save([ self EXCEPT !.faces = Pop(@, Len(@)) ]),
              ret  |-> AfterSave(self, FALSE, FALSE) ]
       ELSE [ self |-> self, ret |-> FALSE ]

\* FaceRegistry.delete_user
delete_user(self, user_id) ==
    LET i == FirstIndexOf(self.faces, user_id)
    IN IF i # 0
       THEN [ self |-> save([ self EXCEPT !.faces = Pop(@, i) ]),
              ret  |-> AfterSave(self, TRUE, FALSE) ]
       ELSE [ self |-> self, ret |-> FALSE ]

\* An identity at capacity: its oldest embedding differs from the others.
FullEmbeddings ==
    [ k \in 1..MAX_EMBEDDINGS_PER_USER |-> IF k = 1 THEN <<3, 4>> ELSE <<0, 0>> ]

\* The documents the registry is loaded from at construction: none, one
\* enrolled identity, one enrolled identity at capacity.
InitialFiles ==
    { NoFile,
      Document(<< [ user_id |-> "kaya", embeddings |-> << <<0, 0>> >> ] >>),
      Document(<< [ user_id |-> "kaya", embeddings |-> FullEmbeddings ] >>) }

\* The registry's fields after a call.
Becomes(self) ==
    /\ faces' = self.faces
    /\ last_identified_user' = self.last_identified_user
    /\ consecutive_misses' = self.consecutive_misses
    /\ last_miss_embedding' = self.last_miss_embedding
    /\ registry_file' = self.file
    /\ uuid_count' = self.uuid_count
    /\ storage_writable' = self.writable

UserIds(fs) == { fs[i].user_id : i \in 1..Len(fs) }

InitRegistry ==
    /\ \E file \in InitialFiles :
         LET self == load(file)
         IN /\ faces = self.faces
            /\ last_identified_user = self.last_identified_user
            /\ consecutive_misses = self.consecutive_misses
            /\ last_miss_embedding = self.last_miss_embedding
            /\ registry_file = self.file
            /\ uuid_count = self.uuid_count
            /\ storage_writable = self.writable
            /\ loaded = file
    /\ calls = <<>>

\* One entry of the call history: the call, what it returned, whether the
\* sample was a confirmed match against the registry as it stood, the
\* embeddings of the identity a delete_user removed, whether the call drew
\* a new id, whether it added an identity to the registry, and whether it
\* raised instead of returning.
Call(op, user_id, e, r, outcome, removed, minted, created) ==
    [ op |-> op, user_id |-> user_id, embedding |-> e, ret |-> r.ret,
      raised |-> r.self.raised, outcome |-> outcome, removed |-> removed,
      minted |-> minted, created |-> created ]

Outcome(fs, e) ==
    IF e = NoEmbedding THEN "none" ELSE IF IsMatch(fs, e) THEN "match" ELSE "miss"

\* One more call is explored.
MayCall ==
    IF storage_writable /\ \A k \in 1..Len(calls) : ~calls[k].raised
    THEN Len(calls) < MaxOps
    ELSE Len(calls) < MaxOutageOps

\* The identity sampling loop calls identify with an embedding or None.
Identify ==
    /\ MayCall
    /\ \E e \in Embeddings \cup {NoEmbedding} :
         LET r == identify(Self, e)
         IN /\ Becomes(r.self)
            /\ calls' = Append(calls, Call("identify", NoUser, e, r,
                                           Outcome(faces, e), <<>>,
                                           r.self.uuid_count # uuid_count,
                                           Len(r.self.faces) > Len(faces)))
    /\ UNCHANGED <<loaded, notRegistry>>

\* The ids a caller may name: operator-chosen names and ids minted so far.
KnownIds == Names \cup { uuid4(n) : n \in 1..uuid_count }

RegisterUser ==
    /\ MayCall
    /\ \E user_id \in KnownIds, e \in Embeddings :
         LET r == register_user(Self, user_id, e)
         IN /\ Becomes(r.self)
            /\ calls' = Append(calls, Call("register_user", user_id, e, r,
                                           "none", <<>>, FALSE,
                                           Len(r.self.faces) > Len(faces)))
    /\ UNCHANGED <<loaded, notRegistry>>

DeleteUser ==
    /\ MayCall
    /\ \E user_id \in KnownIds :
         LET r == delete_user(Self, user_id)
             i == FirstIndexOf(faces, user_id)
         IN /\ Becomes(r.self)
            /\ calls' = Append(calls, Call("delete_user", user_id, NoEmbedding, r,
                                           "none",
                                           IF i # 0 THEN faces[i].embeddings ELSE <<>>,
                                           FALSE, FALSE))
    /\ UNCHANGED <<loaded, notRegistry>>

\* The storage stops accepting writes (read-only or full file system,
\* directory not writable); one outage is followed, which starts before
\* the first call.
StorageBreaks ==
    /\ storage_writable
    /\ calls = <<>>
    /\ storage_writable' = FALSE
    /\ UNCHANGED <<faces, last_identified_user, consecutive_misses,
                   last_miss_embedding, registry_file, uuid_count, loaded, calls>>
    /\ UNCHANGED notRegistry

\* The storage accepts writes again, after a write has failed.
StorageRecovers ==
    /\ ~storage_writable
    /\ \E k \in 1..Len(calls) : calls[k].raised
    /\ storage_writable' = TRUE
    /\ UNCHANGED <<faces, last_identified_user, consecutive_misses,
                   last_miss_embedding, registry_file, uuid_count, loaded, calls>>
    /\ UNCHANGED notRegistry

\* The registry on a storage that can fail.
NextStorage ==
    \/ Identify \/ RegisterUser \/ DeleteUser
    \/ StorageBreaks \/ StorageRecovers

NextRegistry == Identify \/ RegisterUser \/ DeleteUser

(***************************************************************************)
(*                               AudioBuffer                                *)
(***************************************************************************)

energy_threshold == 500
min_speech_frames == 5
max_silence_frames == 25

\* Samples per frame in the model (a multiple of the decimation step).
FrameLen == 3

\* Amplitude of a frame of speech.
SpeechLevel == 600

\* Amplitudes of a frame without speech: digital silence, or noise whose
\* RMS is exactly energy_threshold.
NoiseFloors == { 0, energy_threshold }

\* Longest run of consecutive speech frames, of consecutive silent frames,
\* and number of runs in the frame sequences explored.
MaxLoudRun == 5
MaxQuietRun == 26
MaxRuns == 4

\* What add_frame returns: None, or the bytes of _get_audio.
None == [ kind |-> "None", rate |-> 0, samples |-> <<>> ]
Bytes(rate, samples) == [ kind |-> "bytes", rate |-> rate, samples |-> samples ]

\* Frame number n of the stream, int16 samples of amplitude a.
Frame(n, a) == [ n |-> n, samples |-> [ k \in 1..FrameLen |-> IF k % 2 = 1 THEN a ELSE 0 - a ] ]

RECURSIVE SumSq(_)
SumSq(samples) ==
    IF samples = <<>> THEN 0
    ELSE samples[1] * samples[1] + SumSq(Tail(samples))

\* energy > self.energy_threshold, with energy = sqrt(mean(samples ** 2)).
IsSpeech(frame) ==
    SumSq(frame.samples) > Len(frame.samples) * energy_threshold * energy_threshold

RECURSIVE Join(_)
\* b''.join(self.frames), each sample with the number of its frame.
Join(fs) ==
    IF fs = <<>> THEN <<>>
    ELSE [ k \in 1..Len(fs[1].samples) |-> [ n |-> fs[1].n, s |-> fs[1].samples[k] ] ]
         \o Join(Tail(fs))

\* samples[::3]
EveryThird(xs) == [ k \in 1..((Len(xs) + 2) \div 3) |-> xs[3 * (k - 1) + 1] ]

\* AudioBuffer._get_audio at sample_rate 48000: a 16 kHz WAV of every third
\* sample of the joined frames.
_get_audio(fs) ==
    IF fs = <<>> THEN Bytes(0, <<>>)
    ELSE Bytes(16000, EveryThird(Join(fs)))

\* The accumulator as one record.
Buffer == [ frames         |-> frames,
            is_speaking    |-> is_speaking,
            silence_frames |-> silence_frames,
            speech_frames  |-> speech_frames ]

\* AudioBuffer.__init__
NewBuffer == [ frames |-> <<>>, is_speaking |-> FALSE,
               silence_frames |-> 0, speech_frames |-> 0 ]

\* _reset that leaves the collected frames in place.
_reset_keeps_frames(buf) ==
    [ buf EXCEPT !.is_speaking = FALSE, !.silence_frames = 0, !.speech_frames = 0 ]

\* AudioBuffer._reset
_reset(buf) ==
    [ buf EXCEPT !.frames = <<>>, !.is_speaking = FALSE,
                 !.silence_frames = 0, !.speech_frames = 0 ]

\* The energy test of add_frame: the counters and the gate.
Classify(buf, frame) ==
    IF IsSpeech(frame)
    THEN [ buf EXCEPT !.speech_frames = @ + 1,
                      !.silence_frames = 0,
                      !.is_speaking = (@ \/ buf.speech_frames + 1 >= min_speech_frames) ]
    ELSE [ buf EXCEPT !.silence_frames = @ + 1 ]

\* add_frame that tests the silence counter outside "if self.is_speaking".
add_frame_flushes_ungated(buf, frame) ==
    LET counted == Classify(buf, frame)
        kept    == IF counted.is_speaking
                   THEN [ counted EXCEPT !.frames = Append(@, frame) ]
                   ELSE counted
    IN IF kept.silence_frames >= max_silence_frames
       THEN [ buf |-> _reset(kept), ret |-> _get_audio(kept.frames) ]
       ELSE [ buf |-> kept, ret |-> None ]

\* add_frame that appends the frame outside "if self.is_speaking".
add_frame_appends_ungated(buf, frame) ==
    LET counted == Classify(buf, frame)
        kept    == [ counted EXCEPT !.frames = Append(@, frame) ]
    IN IF counted.is_speaking /\ kept.silence_frames >= max_silence_frames
       THEN [ buf |-> _reset(kept), ret |-> _get_audio(kept.frames) ]
       ELSE [ buf |-> kept, ret |-> None ]

\* AudioBuffer.add_frame
add_frame(buf, frame) ==
    LET counted == Classify(buf, frame)
    IN IF counted.is_speaking
       THEN LET kept == [ counted EXCEPT !.frames = Append(@, frame) ]
            IN IF kept.silence_frames >= max_silence_frames
               THEN [ buf |-> _reset(kept), ret |-> _get_audio(kept.frames) ]
               ELSE [ buf |-> kept, ret |-> None ]
       ELSE [ buf |-> counted, ret |-> None ]

InitVad ==
    /\ frames = NewBuffer.frames
    /\ is_speaking = NewBuffer.is_speaking
    /\ silence_frames = NewBuffer.silence_frames
    /\ speech_frames = NewBuffer.speech_frames
    /\ noise_floor \in NoiseFloors
    /\ fed = <<>>
    /\ returned = None
    /\ utterances = <<>>

RECURSIVE TailRun(_)
\* Length of the run of equal entries at the end of the history.
TailRun(h) ==
    IF Len(h) <= 1 THEN Len(h)
    ELSE IF h[Len(h)] # h[Len(h) - 1] THEN 1
    ELSE 1 + TailRun(SubSeq(h, 1, Len(h) - 1))

\* Number of runs in the history.
Runs(h) ==
    IF h = <<>> THEN 0
    ELSE 1 + Cardinality({ k \in 2..Len(h) : h[k] # h[k - 1] })

\* The frame source may deliver one more frame of this amplitude.
MayFeed(a) ==
    IF fed # <<>> /\ fed[Len(fed)] = a
    THEN TailRun(fed) < (IF a = SpeechLevel THEN MaxLoudRun ELSE MaxQuietRun)
    ELSE Runs(fed) < MaxRuns

\* One call of add_frame on the next frame of the stream.
Feed(a) ==
    /\ MayFeed(a)
    /\ LET frame == Frame(Len(fed) + 1, a)
           r     == add_frame(Buffer, frame)
       IN /\ frames' = r.buf.frames
          /\ is_speaking' = r.buf.is_speaking
          /\ silence_frames' = r.buf.silence_frames
          /\ speech_frames' = r.buf.speech_frames
          /\ fed' = Append(fed, a)
          /\ returned' = r.ret
          /\ utterances' = IF r.ret # None THEN Append(utterances, r.ret) ELSE utterances
    /\ UNCHANGED noise_floor

\* A frame of speech arrives.
AddSpeechFrame == Feed(SpeechLevel) /\ UNCHANGED notVad

\* A frame without speech arrives.
AddSilentFrame == Feed(noise_floor) /\ UNCHANGED notVad

NextVad == AddSpeechFrame \/ AddSilentFrame

(***************************************************************************)
(*                               AudioStream                                *)
(*                                                                         *)
(* audio_generator and play_audio are coroutines of one event loop: each   *)
(* action is the code one of them runs between two awaits.                 *)
(***************************************************************************)

_max_empty_reads == 25

\* Chunks per playback, play_audio calls and yielded chunks explored.
MaxChunks == 2
MaxPlays == 2
MaxYields == 2

InitStream ==
    /\ stream_is_speaking = FALSE
    /\ stop_speaking_event = FALSE
    /\ running = TRUE              \* after AudioStream.start()
    /\ empty_read_count = 0
    /\ gen_pc = "top"
    /\ play_pc = "idle"
    /\ play_i = 0
    /\ play_len = 0
    /\ plays = 0
    /\ yields = 0
    /\ yielded_while_speaking = FALSE

genVars == <<empty_read_count, gen_pc, yields, yielded_while_speaking>>
playVars == <<stream_is_speaking, stop_speaking_event, play_pc, play_i, play_len, plays>>

\* audio_generator, top of the loop (entered at first, after a sleep, or
\* when the consumer asks for the chunk after the one yielded): test
\* _running and _is_speaking, then await read_audio().
GenLoop ==
    /\ gen_pc \in {"top", "yielded"}
    /\ gen_pc = "yielded" => yields < MaxYields
    /\ gen_pc' = IF ~running THEN "end"
                 ELSE IF stream_is_speaking THEN "drain_read"
                 ELSE "read"
    /\ UNCHANGED <<empty_read_count, yields, yielded_while_speaking>>
    /\ UNCHANGED <<playVars, running, notStream>>

\* The drain read of the speaking branch completes; its result is dropped.
GenDrained ==
    /\ gen_pc = "drain_read"
    /\ \E raised \in BOOLEAN :
         gen_pc' = IF raised THEN "error_sleep" ELSE "sleep"
    /\ UNCHANGED <<empty_read_count, yields, yielded_while_speaking>>
    /\ UNCHANGED <<playVars, running, notStream>>

\* chunk = await self.read_audio() completes with a chunk: it is yielded.
GenYield ==
    /\ gen_pc = "read"
    /\ empty_read_count' = 0
    /\ gen_pc' = "yielded"
    /\ yields' = yields + 1
    /\ yielded_while_speaking' = stream_is_speaking
    /\ UNCHANGED <<playVars, running, notStream>>

\* chunk = await self.read_audio() completes with None or b"".
GenEmptyRead ==
    /\ gen_pc = "read"
    /\ empty_read_count' = empty_read_count + 1
    /\ gen_pc' = IF empty_read_count + 1 >= _max_empty_reads
                 THEN "restart" ELSE "sleep"
    /\ UNCHANGED <<yields, yielded_while_speaking>>
    /\ UNCHANGED <<playVars, running, notStream>>

\* await self.read_audio() raises: logged, sleep 0.1.
GenReadRaises ==
    /\ gen_pc = "read"
    /\ gen_pc' = "error_sleep"
    /\ UNCHANGED <<empty_read_count, yields, yielded_while_speaking>>
    /\ UNCHANGED <<playVars, running, notStream>>

\* await self._restart_audio_input(media) returns.
GenRestarted ==
    /\ gen_pc = "restart"
    /\ empty_read_count' = 0
    /\ gen_pc' = "sleep"
    /\ UNCHANGED <<yields, yielded_while_speaking>>
    /\ UNCHANGED <<playVars, running, notStream>>

\* await asyncio.sleep(...) returns; continue.
GenWake ==
    /\ gen_pc \in {"sleep", "error_sleep"}
    /\ gen_pc' = "top"
    /\ UNCHANGED <<empty_read_count, yields, yielded_while_speaking>>
    /\ UNCHANGED <<playVars, running, notStream>>

\* The finally clause of play_audio.
PlayFinally ==
    /\ stream_is_speaking' = FALSE
    /\ play_pc' = "idle"

\* play_audio is called: set _is_speaking, clear the event, convert, and
\* either await the resampling or enter the chunk loop.
PlayStart ==
    /\ play_pc = "idle"
    /\ plays < MaxPlays
    /\ plays' = plays + 1
    /\ stream_is_speaking' = TRUE
    /\ stop_speaking_event' = FALSE
    /\ play_i' = 0
    /\ \E n \in 1..MaxChunks : play_len' = n
    /\ \E resampled \in BOOLEAN :
         play_pc' = IF resampled THEN "resample" ELSE "loop"
    /\ UNCHANGED <<genVars, running, notStream>>

\* await asyncio.to_thread(resample, ...) returns or raises.
PlayResampled ==
    /\ play_pc = "resample"
    /\ \E raised \in BOOLEAN :
         IF raised THEN PlayFinally ELSE play_pc' = "loop" /\ UNCHANGED stream_is_speaking
    /\ UNCHANGED <<stop_speaking_event, play_i, play_len, plays>>
    /\ UNCHANGED <<genVars, running, notStream>>

\* The for loop without the test of _stop_speaking_event.
PlayNext_ignores_interrupt ==
    /\ play_pc = "loop"
    /\ IF play_i >= play_len
       THEN PlayFinally
       ELSE play_pc' = "push" /\ UNCHANGED stream_is_speaking
    /\ UNCHANGED <<stop_speaking_event, play_i, play_len, plays>>
    /\ UNCHANGED <<genVars, running, notStream>>

\* One test of the for loop: done, interrupted, or push the next chunk.
PlayNext ==
    /\ play_pc = "loop"
    /\ IF play_i >= play_len \/ stop_speaking_event
       THEN PlayFinally
       ELSE play_pc' = "push" /\ UNCHANGED stream_is_speaking
    /\ UNCHANGED <<stop_speaking_event, play_i, play_len, plays>>
    /\ UNCHANGED <<genVars, running, notStream>>

\* await loop.run_in_executor(None, media.push_audio_sample, chunk) returns
\* or raises.
PlayPushed ==
    /\ play_pc = "push"
    /\ \E raised \in BOOLEAN :
         IF raised
         THEN PlayFinally /\ UNCHANGED play_i
         ELSE /\ play_pc' = "yield"
              /\ play_i' = play_i + 1
              /\ UNCHANGED stream_is_speaking
    /\ UNCHANGED <<stop_speaking_event, play_len, plays>>
    /\ UNCHANGED <<genVars, running, notStream>>

\* await asyncio.sleep(0.001) returns.
PlayWake ==
    /\ play_pc = "yield"
    /\ play_pc' = "loop"
    /\ UNCHANGED <<stream_is_speaking, stop_speaking_event, play_i, play_len, plays>>
    /\ UNCHANGED <<genVars, running, notStream>>

\* AudioStream.interrupt_speech
InterruptSpeech ==
    /\ stream_is_speaking
    /\ ~stop_speaking_event
    /\ stop_speaking_event' = TRUE
    /\ UNCHANGED <<stream_is_speaking, play_pc, play_i, play_len, plays>>
    /\ UNCHANGED <<genVars, running, notStream>>

\* AudioStream.stop
StopStream ==
    /\ running
    /\ running' = FALSE
    /\ UNCHANGED <<genVars, playVars, notStream>>

NextStream ==
    \/ GenLoop \/ GenDrained \/ GenYield \/ GenEmptyRead \/ GenReadRaises
    \/ GenRestarted \/ GenWake
    \/ PlayStart \/ PlayResampled \/ PlayNext \/ PlayPushed \/ PlayWake
    \/ InterruptSpeech \/ StopStream

\* The steps of the play_audio coroutine. The event loop resumes it after
\* each await: the resampling thread, the executor's push and the sleep end.
PlayStep == PlayResampled \/ PlayNext \/ PlayPushed \/ PlayWake

(***************************************************************************)
(*          _process_speech: ClawdbotHandler and WirelessVoiceClient        *)
(*                                                                         *)
(* A process runs one of the two handlers.  _process_speech runs as tasks  *)
(* of one event loop: each action is the code a task runs between two      *)
(* awaits.  An utterance may complete at any call of receive /             *)
(* _on_audio_sample that finds the processing flag false.                  *)
(***************************************************************************)

\* _process_speech tasks explored.
MaxTasks == 3

Handlers == { "ClawdbotHandler", "WirelessVoiceClient" }

Tasks == 1..MaxTasks

\* The awaits of the pipeline a task can be suspended at.
InFlight == { "stt", "memory", "chat", "tool", "speak", "save" }

\* The history of a task: how its chat call went ("none" before it), whether
\* a text was passed to _speak, and whether the except clause ran.
NoLog == [ chat |-> "none", spoke |-> FALSE, caught |-> FALSE ]

\* How the chat call of a turn goes: a reply (text, tool calls or both), a
\* reply with neither, or a failure (connection error, timeout, status
\* other than 200, no choices).
ChatOutcomes == { "reply", "empty", "failed" }

Logged(t, field, value) ==
    task_log' = [ task_log EXCEPT ![t] = [ @ EXCEPT ![field] = value ] ]

InitTurn ==
    /\ handler \in Handlers
    /\ memory_client \in (IF handler = "ClawdbotHandler" THEN BOOLEAN ELSE {FALSE})
    /\ is_processing = FALSE
    /\ lock_locked = FALSE
    /\ lock_waiters = <<>>
    /\ task_pc = [ t \in Tasks |-> "none" ]
    /\ task_response = [ t \in Tasks |-> FALSE ]
    /\ task_log = [ t \in Tasks |-> NoLog ]

\* A task that has not been created yet.
FreeTask(t) == task_pc[t] = "none" /\ \A u \in 1..(t - 1) : task_pc[u] # "none"

\* The event loop running its ready callbacks in any order.
IsNextToStart_any(t) == task_pc[t] = "created"

\* The event loop runs its ready callbacks in order: a task takes its first
\* step after the tasks created before it.
IsNextToStart(t) ==
    task_pc[t] = "created" /\ \A u \in 1..(t - 1) : task_pc[u] # "created"

\* asyncio.Lock.acquire without waiting, whatever the state of the lock.
LockIsFree_always(locked, waiters) == TRUE

\* asyncio.Lock.acquire succeeds without waiting: unlocked and nobody queued.
LockIsFree(locked, waiters) == ~locked /\ waiters = <<>>

\* ClawdbotHandler.receive at the end of an utterance: the call is not
\* skipped (_is_processing is false) and creates the _process_speech task.
Receive ==
    /\ handler = "ClawdbotHandler"
    /\ ~is_processing
    /\ \E t \in Tasks :
         /\ FreeTask(t)
         /\ task_pc' = [ task_pc EXCEPT ![t] = "created" ]
    /\ UNCHANGED <<handler, memory_client, is_processing, lock_locked,
                   lock_waiters, task_response, task_log, notTurn>>

\* The body of "async with self._processing_lock" up to its first await:
\* set _is_processing; with no audio, or when combining or resampling
\* raises, fall to the finally clause and leave the lock; else await
\* _transcribe.
EnterPipeline(t, waiters) ==
    \E outcome \in { "empty", "raise", "transcribe" } :
      IF outcome = "transcribe"
      THEN /\ is_processing' = TRUE
           /\ lock_locked' = TRUE
           /\ lock_waiters' = waiters
           /\ task_pc' = [ task_pc EXCEPT ![t] = "stt" ]
           /\ UNCHANGED task_log
      ELSE /\ is_processing' = FALSE
           /\ lock_locked' = FALSE
           /\ lock_waiters' = waiters
           /\ task_pc' = [ task_pc EXCEPT ![t] = "done" ]
           /\ Logged(t, "caught", outcome = "raise")

\* A created task runs for the first time: it takes the lock or queues.
StartTask(t) ==
    /\ handler = "ClawdbotHandler"
    /\ IsNextToStart(t)
    /\ IF LockIsFree(lock_locked, lock_waiters)
       THEN EnterPipeline(t, lock_waiters)
       ELSE /\ task_pc' = [ task_pc EXCEPT ![t] = "waiting" ]
            /\ lock_waiters' = Append(lock_waiters, t)
            /\ UNCHANGED <<is_processing, lock_locked, task_log>>
    /\ UNCHANGED <<handler, memory_client, task_response, notTurn>>

\* The first waiter is woken by release() and takes the lock.
AcquireLock(t) ==
    /\ handler = "ClawdbotHandler"
    /\ task_pc[t] = "waiting"
    /\ lock_waiters # <<>> /\ Head(lock_waiters) = t
    /\ ~lock_locked
    /\ EnterPipeline(t, Tail(lock_waiters))
    /\ UNCHANGED <<handler, memory_client, task_response, notTurn>>

\* The end of "async with" without the finally clause: the flag stays.
Finish_keeps_flag(t) ==
    /\ is_processing' = is_processing
    /\ lock_locked' = FALSE
    /\ task_pc' = [ task_pc EXCEPT ![t] = "done" ]

\* The finally clause and the end of "async with": clear the flag, release.
Finish(t) ==
    /\ is_processing' = FALSE
    /\ lock_locked' = FALSE
    /\ task_pc' = [ task_pc EXCEPT ![t] = "done" ]

Continue(t, pc) ==
    /\ task_pc' = [ task_pc EXCEPT ![t] = pc ]
    /\ UNCHANGED <<is_processing, lock_locked>>

\* await self._transcribe(...) returns a transcript or None.
Transcribed(t) ==
    /\ handler = "ClawdbotHandler"
    /\ task_pc[t] = "stt"
    /\ \E transcript \in BOOLEAN :
         IF ~transcript THEN Finish(t)
         ELSE Continue(t, IF memory_client THEN "memory" ELSE "chat")
    /\ UNCHANGED <<handler, memory_client, lock_waiters, task_response, task_log, notTurn>>

\* await self._get_memory_context() returns.
GotContext(t) ==
    /\ handler = "ClawdbotHandler"
    /\ task_pc[t] = "memory"
    /\ Continue(t, "chat")
    /\ UNCHANGED <<handler, memory_client, lock_waiters, task_response, task_log, notTurn>>

\* The endpoint's answer to a chat call: how the call went and, for a
\* reply, whether it holds a text and whether it holds tool calls.
Answers ==
    { a \in [ outcome : ChatOutcomes, content : BOOLEAN, tool_calls : BOOLEAN ] :
        IF a.outcome = "reply" THEN a.content \/ a.tool_calls
        ELSE ~a.content /\ ~a.tool_calls }

\* ClawdbotHandler._chat_with_tools: what it returns for an answer. response
\* is TRUE for a text that is not empty. With no choices in the body, and on
\* any exception, it returns a sentence of its own and no tool calls.
_chat_with_tools(a) ==
    IF a.outcome = "failed" THEN [ response |-> TRUE, tool_calls |-> FALSE ]
    ELSE [ response |-> a.content, tool_calls |-> a.tool_calls ]

\* await self._chat_with_tools(...) returns (response, tool_calls); the
\* tool calls are dispatched first, a response that is not empty is passed
\* to _speak.
Chatted(t) ==
    /\ handler = "ClawdbotHandler"
    /\ task_pc[t] = "chat"
    /\ \E a \in Answers :
         LET r == _chat_with_tools(a) IN
         /\ task_response' = [ task_response EXCEPT ![t] = r.response ]
         /\ task_log' = [ task_log EXCEPT ![t] =
                 [ @ EXCEPT !.chat = a.outcome,
                            !.spoke = r.response /\ ~r.tool_calls ] ]
         /\ IF r.tool_calls THEN Continue(t, "tool")
            ELSE IF r.response THEN Continue(t, "speak")
            ELSE Finish(t)
    /\ UNCHANGED <<handler, memory_client, lock_waiters, notTurn>>

\* await dispatch_tool_call(...) returns or raises.
ToolDone(t) ==
    /\ handler = "ClawdbotHandler"
    /\ task_pc[t] = "tool"
    /\ \E raised \in BOOLEAN :
         /\ task_log' = [ task_log EXCEPT ![t] =
                 [ @ EXCEPT !.caught = raised,
                            !.spoke = ~raised /\ task_response[t] ] ]
         /\ IF raised \/ ~task_response[t] THEN Finish(t)
            ELSE Continue(t, "speak")
    /\ UNCHANGED <<handler, memory_client, lock_waiters, task_response, notTurn>>

\* await self._speak(response) returns or raises.
Spoke(t) ==
    /\ handler = "ClawdbotHandler"
    /\ task_pc[t] = "speak"
    /\ \E raised \in BOOLEAN :
         /\ Logged(t, "caught", raised)
         /\ IF raised \/ ~memory_client THEN Finish(t) ELSE Continue(t, "save")
    /\ UNCHANGED <<handler, memory_client, lock_waiters, task_response, notTurn>>

\* await self._save_to_memory(...) returns or raises.
Saved(t) ==
    /\ handler = "ClawdbotHandler"
    /\ task_pc[t] = "save"
    /\ Finish(t)
    /\ UNCHANGED <<handler, memory_client, lock_waiters, task_response, task_log, notTurn>>

\* WirelessVoiceClient._on_audio_sample: is_processing is false, add_frame
\* returns an utterance and _process_speech is scheduled on the loop.
OnAudioSample ==
    /\ handler = "WirelessVoiceClient"
    /\ ~is_processing
    /\ \E t \in Tasks :
         /\ FreeTask(t)
         /\ task_pc' = [ task_pc EXCEPT ![t] = "created" ]
    /\ UNCHANGED <<handler, memory_client, is_processing, lock_locked,
                   lock_waiters, task_response, task_log, notTurn>>

\* WirelessVoiceClient._process_speech up to its first await: return at
\* once when a turn is being processed, else set the flag and transcribe.
WStart(t) ==
    /\ handler = "WirelessVoiceClient"
    /\ IsNextToStart(t)
    /\ IF is_processing
       THEN /\ task_pc' = [ task_pc EXCEPT ![t] = "done" ]
            /\ UNCHANGED is_processing
       ELSE /\ is_processing' = TRUE
            /\ task_pc' = [ task_pc EXCEPT ![t] = "stt" ]
    /\ UNCHANGED <<handler, memory_client, lock_locked, lock_waiters,
                   task_response, task_log, notTurn>>

\* The finally clause of WirelessVoiceClient._process_speech.
WFinish(t) ==
    /\ is_processing' = FALSE
    /\ task_pc' = [ task_pc EXCEPT ![t] = "done" ]

WContinue(t, pc) ==
    /\ task_pc' = [ task_pc EXCEPT ![t] = pc ]
    /\ UNCHANGED is_processing

\* await self._transcribe(audio_data) returns a transcript or None.
WTranscribed(t) ==
    /\ handler = "WirelessVoiceClient"
    /\ task_pc[t] = "stt"
    /\ \E transcript \in BOOLEAN :
         IF transcript THEN WContinue(t, "chat") ELSE WFinish(t)
    /\ UNCHANGED <<handler, memory_client, lock_locked, lock_waiters,
                   task_response, task_log, notTurn>>

\* WirelessVoiceClient._chat: what it returns for an answer. On a status
\* other than 200, with no choices, and on any exception it returns None
\* and no tool calls.
_chat(a) ==
    IF a.outcome = "failed" THEN [ response |-> FALSE, tool_calls |-> FALSE ]
    ELSE [ response |-> a.content, tool_calls |-> a.tool_calls ]

\* await self._chat(transcript) returns (response, tool_calls).
WChatted(t) ==
    /\ handler = "WirelessVoiceClient"
    /\ task_pc[t] = "chat"
    /\ \E a \in Answers :
         LET r == _chat(a) IN
         /\ task_response' = [ task_response EXCEPT ![t] = r.response ]
         /\ task_log' = [ task_log EXCEPT ![t] =
                 [ @ EXCEPT !.chat = a.outcome,
                            !.spoke = r.response /\ ~r.tool_calls ] ]
         /\ IF r.tool_calls THEN WContinue(t, "tool")
            ELSE IF r.response THEN WContinue(t, "speak")
            ELSE WFinish(t)
    /\ UNCHANGED <<handler, memory_client, lock_locked, lock_waiters, notTurn>>

\* await self._execute_tool(tool_call) returns or raises.
WToolDone(t) ==
    /\ handler = "WirelessVoiceClient"
    /\ task_pc[t] = "tool"
    /\ \E raised \in BOOLEAN :
         /\ task_log' = [ task_log EXCEPT ![t] =
                 [ @ EXCEPT !.caught = raised,
                            !.spoke = ~raised /\ task_response[t] ] ]
         /\ IF raised \/ ~task_response[t] THEN WFinish(t)
            ELSE WContinue(t, "speak")
    /\ UNCHANGED <<handler, memory_client, lock_locked, lock_waiters,
                   task_response, notTurn>>

\* await self._speak(response) returns or raises.
WSpoke(t) ==
    /\ handler = "WirelessVoiceClient"
    /\ task_pc[t] = "speak"
    /\ WFinish(t)
    /\ UNCHANGED <<handler, memory_client, lock_locked, lock_waiters,
                   task_response, task_log, notTurn>>

NextTurn ==
    \/ Receive
    \/ \E t \in Tasks : StartTask(t)
    \/ \E t \in Tasks : AcquireLock(t)
    \/ \E t \in Tasks : Transcribed(t)
    \/ \E t \in Tasks : GotContext(t)
    \/ \E t \in Tasks : Chatted(t)
    \/ \E t \in Tasks : ToolDone(t)
    \/ \E t \in Tasks : Spoke(t)
    \/ \E t \in Tasks : Saved(t)
    \/ OnAudioSample
    \/ \E t \in Tasks : WStart(t)
    \/ \E t \in Tasks : WTranscribed(t)
    \/ \E t \in Tasks : WChatted(t)
    \/ \E t \in Tasks : WToolDone(t)
    \/ \E t \in Tasks : WSpoke(t)

\* The steps of one _process_speech task. The event loop runs every task
\* that is ready, the lock wakes its first waiter, and every awaited call
\* ends: the HTTP clients are built with timeouts, the queue is unbounded.
TaskStep(t) ==
    \/ StartTask(t)
    \/ AcquireLock(t)
    \/ Transcribed(t)
    \/ GotContext(t)
    \/ Chatted(t)
    \/ ToolDone(t)
    \/ Spoke(t)
    \/ Saved(t)
    \/ WStart(t)
    \/ WTranscribed(t)
    \/ WChatted(t)
    \/ WToolDone(t)
    \/ WSpoke(t)

(***************************************************************************)
(*                    reachy_bridge: push architecture                      *)
(*                                                                         *)
(* continuous_listener runs in a background thread; play_wav_data runs in  *)
(* the thread of the HTTP server, one request at a time.                    *)
(***************************************************************************)

\* Peak levels are in units of 0.01: NOISE_THRESHOLD = 0.02.
NOISE_THRESHOLD == 2
SILENCE_CHUNKS_TO_TRIGGER == 2

\* Peak levels of a recorded chunk: below, at and above the threshold.
Peaks == { 1, 2, 3 }

\* record_chunk_sdk calls and play_wav_data calls explored.
MaxRecords == 4
MaxBridgePlays == 2

InitBridge ==
    /\ listening_active = TRUE      \* after start_listening()
    /\ listener_pc = "loop"
    /\ bridge_accumulated_chunks = <<>>
    /\ bridge_silence_counter = 0
    /\ bridge_playing = FALSE
    /\ recorded_while_playing = FALSE
    /\ bridge_records = 0
    /\ bridge_plays = 0
    /\ bridge_pushed = <<>>

\* continuous_listener, top of the loop: test listening_active and start
\* recording a chunk of CHUNK_DURATION.
RecordStart ==
    /\ listener_pc = "loop"
    /\ listening_active => bridge_records < MaxRecords
    /\ IF listening_active
       THEN /\ listener_pc' = "recording"
            /\ bridge_records' = bridge_records + 1
            /\ recorded_while_playing' = bridge_playing
       ELSE /\ listener_pc' = "stopped"
            /\ UNCHANGED <<bridge_records, recorded_while_playing>>
    /\ UNCHANGED <<listening_active, bridge_accumulated_chunks,
                   bridge_silence_counter, bridge_playing, bridge_plays,
                   bridge_pushed, notBridge>>

\* The noise gate of continuous_listener.
is_speech(peak_level) == peak_level > NOISE_THRESHOLD

\* record_chunk_sdk returns a chunk with its peak level, and the body of the
\* loop runs: a speech chunk is accumulated; a silent one, with speech
\* waiting, counts, and the second in a row hands a copy of the chunks to a
\* send_audio_to_macos thread and clears them.
RecordEnd ==
    /\ listener_pc = "recording"
    /\ listener_pc' = "loop"
    /\ \E peak_level \in Peaks :
         LET wav_chunk == [ peak |-> peak_level, echo |-> recorded_while_playing ] IN
         IF is_speech(peak_level)
         THEN /\ bridge_accumulated_chunks' = Append(bridge_accumulated_chunks, wav_chunk)
              /\ bridge_silence_counter' = 0
              /\ UNCHANGED bridge_pushed
         ELSE IF bridge_accumulated_chunks = <<>>
         THEN UNCHANGED <<bridge_accumulated_chunks, bridge_silence_counter, bridge_pushed>>
         ELSE IF bridge_silence_counter + 1 >= SILENCE_CHUNKS_TO_TRIGGER
         THEN /\ bridge_pushed' = Append(bridge_pushed, bridge_accumulated_chunks)
              /\ bridge_accumulated_chunks' = <<>>
              /\ bridge_silence_counter' = 0
         ELSE /\ bridge_silence_counter' = bridge_silence_counter + 1
              /\ UNCHANGED <<bridge_accumulated_chunks, bridge_pushed>>
    /\ UNCHANGED <<listening_active, bridge_playing, recorded_while_playing,
                   bridge_records, bridge_plays, notBridge>>

\* record_chunk_sdk returns no samples (sleep 0.1) or raises (sleep 1): the
\* loop goes on with nothing changed.
RecordNothing ==
    /\ listener_pc = "recording"
    /\ listener_pc' = "loop"
    /\ UNCHANGED <<listening_active, bridge_accumulated_chunks,
                   bridge_silence_counter, bridge_playing, recorded_while_playing,
                   bridge_records, bridge_plays, bridge_pushed, notBridge>>

\* play_wav_data: start_playing and push_audio_sample, then sleep for the
\* length of the audio.
PlayWavStart ==
    /\ ~bridge_playing
    /\ bridge_plays < MaxBridgePlays
    /\ bridge_playing' = TRUE
    /\ bridge_plays' = bridge_plays + 1
    /\ recorded_while_playing' =
           (recorded_while_playing \/ listener_pc = "recording")
    /\ UNCHANGED <<listening_active, listener_pc, bridge_accumulated_chunks,
                   bridge_silence_counter, bridge_records, bridge_pushed,
                   notBridge>>

\* play_wav_data: the sleep ends, stop_playing.
PlayWavEnd ==
    /\ bridge_playing
    /\ bridge_playing' = FALSE
    /\ UNCHANGED <<listening_active, listener_pc, bridge_accumulated_chunks,
                   bridge_silence_counter, recorded_while_playing,
                   bridge_records, bridge_plays, bridge_pushed, notBridge>>

\* stop_listening
StopListening ==
    /\ listening_active
    /\ listening_active' = FALSE
    /\ UNCHANGED <<listener_pc, bridge_accumulated_chunks,
                   bridge_silence_counter, bridge_playing, recorded_while_playing,
                   bridge_records, bridge_plays, bridge_pushed, notBridge>>

NextBridge ==
    \/ RecordStart \/ RecordEnd \/ RecordNothing
    \/ PlayWavStart \/ PlayWavEnd \/ StopListening

(***************************************************************************)
(*                    voice_loop: the push voice server                     *)
(*                                                                         *)
(* Three kinds of thread share the module's globals without a lock: the    *)
(* HTTP thread (do_POST, one request at a time), check_speech_timeout, and *)
(* one process_speech_sequence thread per sequence that timed out.  An     *)
(* action is a step one thread takes between two points where another      *)
(* thread can run.                                                          *)
(***************************************************************************)

\* Chunks posted to /audio explored.
MaxPosts == 3

\* The blocking calls of process_speech_sequence, in order.
PipelineSteps == << "transcribe", "respond", "tts", "play" >>

InitServer ==
    /\ server_running = TRUE
    /\ accumulated_chunks = <<>>
    /\ quiet = TRUE                \* last_audio_time = 0
    /\ post_pc = "idle"
    /\ timeout_pc = "sleep"
    /\ chunks_to_process = <<>>
    /\ posts = 0
    /\ handed = <<>>
    /\ pipeline_pc = <<>>

\* do_POST /audio: read the body and append it to accumulated_chunks.
PostAppend ==
    /\ server_running
    /\ post_pc = "idle"
    /\ posts < MaxPosts
    /\ posts' = posts + 1
    /\ accumulated_chunks' = Append(accumulated_chunks, posts + 1)
    /\ post_pc' = "appended"
    /\ UNCHANGED <<server_running, quiet, timeout_pc, chunks_to_process,
                   handed, pipeline_pc, notServer>>

\* do_POST /audio: last_audio_time = time.time(), then answer 200.
PostStamp ==
    /\ post_pc = "appended"
    /\ quiet' = FALSE
    /\ post_pc' = "idle"
    /\ UNCHANGED <<server_running, accumulated_chunks, timeout_pc,
                   chunks_to_process, posts, handed, pipeline_pc, notServer>>

\* SPEECH_TIMEOUT passes with no new value of last_audio_time.
TimePasses ==
    /\ ~quiet
    /\ quiet' = TRUE
    /\ UNCHANGED <<server_running, accumulated_chunks, post_pc, timeout_pc,
                   chunks_to_process, posts, handed, pipeline_pc, notServer>>

\* check_speech_timeout wakes from its sleep, finds chunks and the timeout
\* reached, and copies accumulated_chunks.
TimeoutCopy ==
    /\ server_running
    /\ timeout_pc = "sleep"
    /\ accumulated_chunks # <<>> /\ quiet
    /\ chunks_to_process' = accumulated_chunks
    /\ timeout_pc' = "copied"
    /\ UNCHANGED <<server_running, accumulated_chunks, quiet, post_pc, posts,
                   handed, pipeline_pc, notServer>>

\* check_speech_timeout clears accumulated_chunks and starts a thread that
\* runs process_speech_sequence on the copy.
TimeoutClear ==
    /\ timeout_pc = "copied"
    /\ accumulated_chunks' = <<>>
    /\ handed' = Append(handed, chunks_to_process)
    /\ pipeline_pc' = Append(pipeline_pc, 1)
    /\ timeout_pc' = "sleep"
    /\ UNCHANGED <<server_running, quiet, post_pc, chunks_to_process, posts,
                   notServer>>

\* The end of process_speech_sequence.
PipelineDone == Len(PipelineSteps) + 1

\* A blocking call of process_speech_sequence returns: with a result the
\* next call is made, with None (or False) the function returns.
PipelineStep(k) ==
    /\ k \in 1..Len(pipeline_pc)
    /\ pipeline_pc[k] # PipelineDone
    /\ \E ok \in BOOLEAN :
         pipeline_pc' = [ pipeline_pc EXCEPT
                            ![k] = IF ok THEN @ + 1 ELSE PipelineDone ]
    /\ UNCHANGED <<server_running, accumulated_chunks, quiet, post_pc,
                   timeout_pc, chunks_to_process, posts, handed, notServer>>

\* signal_handler
SignalHandler ==
    /\ server_running
    /\ server_running' = FALSE
    /\ UNCHANGED <<accumulated_chunks, quiet, post_pc, timeout_pc,
                   chunks_to_process, posts, handed, pipeline_pc, notServer>>

NextServer ==
    \/ PostAppend \/ PostStamp \/ TimePasses \/ TimeoutCopy \/ TimeoutClear
    \/ (\E k \in 1..MaxPosts : PipelineStep(k))
    \/ SignalHandler

(***************************************************************************)
(*                         ClawdbotHandler.receive                          *)
(***************************************************************************)

_vad_threshold == 500
_min_speech_frames == 10
_max_silence_frames == 25

\* Longest run of frames above the threshold, of frames not above it, and
\* number of runs in the frame sequences explored.
MaxSpeechRun == 10
MaxIdleRun == 25
MaxRecvRuns == 3

\* RMS values of a frame: silence, exactly the threshold, speech.
RmsValues == { 0, _vad_threshold, 600 }

InitRecv ==
    /\ recv_is_speaking = FALSE
    /\ recv_silence_frames = 0
    /\ recv_speech_frames = 0
    /\ input_buffer = <<>>
    /\ recv_is_processing = FALSE
    /\ recv_started = 0
    /\ recv_fed = <<>>
    /\ recv_tasks = <<>>

\* The handler's VAD state as one record.
Handler == [ _is_speaking    |-> recv_is_speaking,
             _silence_frames |-> recv_silence_frames,
             _speech_frames  |-> recv_speech_frames,
             input_buffer    |-> input_buffer ]

\* The VAD branch of receive: the counters, the gate, and at the end of the
\* speech the buffer handed to a new _process_speech task (task is the
\* audio handed, <<>> with ended FALSE when no task is created).
vad(h, rms) ==
    IF rms > _vad_threshold
    THEN [ h |-> [ h EXCEPT !._speech_frames = @ + 1,
                            !._silence_frames = 0,
                            !._is_speaking =
                                (@ \/ h._speech_frames + 1 >= _min_speech_frames) ],
           ended |-> FALSE, task |-> <<>> ]
    ELSE IF ~h._is_speaking
    THEN [ h |-> h, ended |-> FALSE, task |-> <<>> ]
    ELSE IF h._silence_frames + 1 >= _max_silence_frames
    THEN [ h |-> [ h EXCEPT !._silence_frames = @ + 1,
                            !._is_speaking = FALSE,
                            !._speech_frames = 0,
                            !.input_buffer = <<>> ],
           ended |-> TRUE, task |-> h.input_buffer ]
    ELSE [ h |-> [ h EXCEPT !._silence_frames = @ + 1 ],
           ended |-> FALSE, task |-> <<>> ]

\* The last statement of receive: the frame is appended while speaking or
\* while the silence counter is under its limit.
accumulate(h, n) ==
    IF h._is_speaking \/ h._silence_frames < _max_silence_frames
    THEN [ h EXCEPT !.input_buffer = Append(@, n) ]
    ELSE h

\* The frame source may deliver one more frame, above the threshold or not.
MayReceive(loud) ==
    IF recv_fed # <<>> /\ recv_fed[Len(recv_fed)] = loud
    THEN TailRun(recv_fed) < (IF loud THEN MaxSpeechRun ELSE MaxIdleRun)
    ELSE Runs(recv_fed) < MaxRecvRuns

\* ClawdbotHandler.receive on frame number Len(recv_fed) + 1.
ReceiveFrame ==
    /\ \E rms \in RmsValues :
         /\ MayReceive(rms > _vad_threshold)
         /\ recv_fed' = Append(recv_fed, rms > _vad_threshold)
         /\ IF recv_is_processing
            THEN UNCHANGED <<recv_is_speaking, recv_silence_frames,
                             recv_speech_frames, input_buffer, recv_tasks>>
            ELSE LET r    == vad(Handler, rms)
                     kept == accumulate(r.h, Len(recv_fed) + 1)
                 IN /\ recv_is_speaking' = kept._is_speaking
                    /\ recv_silence_frames' = kept._silence_frames
                    /\ recv_speech_frames' = kept._speech_frames
                    /\ input_buffer' = kept.input_buffer
                    /\ recv_tasks' = IF r.ended THEN Append(recv_tasks, r.task)
                                     ELSE recv_tasks
    /\ UNCHANGED <<recv_is_processing, recv_started, notRecv>>

\* The next task created takes the lock and sets _is_processing.
ProcessingStarts ==
    /\ ~recv_is_processing
    /\ recv_started < Len(recv_tasks)
    /\ recv_is_processing' = TRUE
    /\ recv_started' = recv_started + 1
    /\ UNCHANGED <<recv_is_speaking, recv_silence_frames, recv_speech_frames,
                   input_buffer, recv_fed, recv_tasks, notRecv>>

\* The finally clause of _process_speech clears _is_processing.
ProcessingEnds ==
    /\ recv_is_processing
    /\ recv_is_processing' = FALSE
    /\ UNCHANGED recv_started
    /\ UNCHANGED <<recv_is_speaking, recv_silence_frames, recv_speech_frames,
                   input_buffer, recv_fed, recv_tasks, notRecv>>

NextRecv == ReceiveFrame \/ ProcessingStarts \/ ProcessingEnds

(***************************************************************************)
(*                            ConversationMemory                            *)
(*                                                                         *)
(* _message_worker is a task of the event loop: each action is the code it *)
(* runs between two awaits.  _enqueue_message and close are called from    *)
(* other tasks of the same loop.                                            *)
(***************************************************************************)

_max_save_retries == 3

\* _enqueue_message calls explored.
MaxMessages == 2

Messages == 1..MaxMessages

\* The worker holds no item.
NoItem == [ id |-> 0, attempts |-> 0 ]

\* QueuedMessage(session, peer, content) for message number m.
QueuedMessage(m) == [ id |-> m, attempts |-> 0 ]

\* After initialize() with an API key.
InitMemory ==
    /\ message_queue = <<>>
    /\ queue_is_none = FALSE
    /\ worker_shutdown = FALSE
    /\ worker_pc = "check"
    /\ worker_item = NoItem
    /\ close_pc = "idle"
    /\ enqueues = 0
    /\ attempted = [ m \in Messages |-> 0 ]
    /\ dropped = {}
    /\ queued_before_close = {}
    /\ pending_at_close = {}

\* The messages in the queue or in the worker's hands.
Pending ==
    { message_queue[i].id : i \in 1..Len(message_queue) }
    \cup (IF worker_item = NoItem THEN {} ELSE { worker_item.id })

\* ConversationMemory._enqueue_message: nothing without a queue or without
\* content, else put a new QueuedMessage.
EnqueueMessage ==
    /\ enqueues < MaxMessages
    /\ enqueues' = enqueues + 1
    /\ \E content \in { "", "text" } :
         IF queue_is_none \/ content = ""
         THEN UNCHANGED <<message_queue, queued_before_close>>
         ELSE /\ message_queue' = Append(message_queue, QueuedMessage(enqueues + 1))
              /\ queued_before_close' =
                     IF close_pc = "idle"
                     THEN queued_before_close \cup { enqueues + 1 }
                     ELSE queued_before_close
    /\ UNCHANGED <<queue_is_none, worker_shutdown, worker_pc, worker_item,
                   close_pc, attempted, dropped, pending_at_close, notMemory>>

\* The worker leaves its loop whenever the shutdown event is set.
MayExit_on_shutdown(shutdown, queue) == shutdown

\* The test at the top of the worker's loop.
MayExit(shutdown, queue) == shutdown /\ queue = <<>>

\* _message_worker, top of the loop: break, or await the next item.
WorkerCheck ==
    /\ worker_pc = "check"
    /\ worker_pc' = IF MayExit(worker_shutdown, message_queue)
                    THEN "exited" ELSE "get"
    /\ UNCHANGED <<message_queue, queue_is_none, worker_shutdown, worker_item,
                   close_pc, enqueues, attempted, dropped,
                   queued_before_close, pending_at_close, notMemory>>

\* await asyncio.wait_for(self._message_queue.get(), timeout=0.5) returns
\* the first item.
WorkerGet ==
    /\ worker_pc = "get"
    /\ message_queue # <<>>
    /\ worker_item' = Head(message_queue)
    /\ message_queue' = Tail(message_queue)
    /\ worker_pc' = "save"
    /\ UNCHANGED <<queue_is_none, worker_shutdown, close_pc, enqueues,
                   attempted, dropped, queued_before_close, pending_at_close,
                   notMemory>>

\* The wait for an item times out on an empty queue: continue.
WorkerTimeout ==
    /\ worker_pc = "get"
    /\ message_queue = <<>>
    /\ worker_pc' = "check"
    /\ UNCHANGED <<message_queue, queue_is_none, worker_shutdown, worker_item,
                   close_pc, enqueues, attempted, dropped,
                   queued_before_close, pending_at_close, notMemory>>

\* The retry test with one retry more.
MayRetry_once_more(item) == item.attempts <= _max_save_retries

\* The retry test of the except clause.
MayRetry(item) == item.attempts < _max_save_retries

\* await item.session.aio.add_messages(...) returns, or raises: the item is
\* retried after a sleep, or given up.
WorkerSaved ==
    /\ worker_pc = "save"
    /\ attempted' = [ attempted EXCEPT ![worker_item.id] = @ + 1 ]
    /\ \E raised \in BOOLEAN :
         IF raised /\ MayRetry(worker_item)
         THEN /\ worker_item' = [ worker_item EXCEPT !.attempts = @ + 1 ]
              /\ worker_pc' = "backoff"
              /\ UNCHANGED dropped
         ELSE /\ worker_item' = NoItem
              /\ worker_pc' = "check"
              /\ dropped' = IF raised THEN dropped \cup { worker_item.id }
                            ELSE dropped
    /\ UNCHANGED <<message_queue, queue_is_none, worker_shutdown, close_pc,
                   enqueues, queued_before_close, pending_at_close, notMemory>>

\* await asyncio.sleep(min(2**item.attempts, 5)) returns: the item is put
\* back if the queue is still there, and task_done() ends the iteration.
WorkerRequeue ==
    /\ worker_pc = "backoff"
    /\ message_queue' = IF queue_is_none THEN message_queue
                        ELSE Append(message_queue, worker_item)
    /\ worker_item' = NoItem
    /\ worker_pc' = "check"
    /\ UNCHANGED <<queue_is_none, worker_shutdown, close_pc, enqueues,
                   attempted, dropped, queued_before_close, pending_at_close,
                   notMemory>>

\* ConversationMemory.close: set the shutdown event and await the worker.
Close ==
    /\ close_pc = "idle"
    /\ worker_shutdown' = TRUE
    /\ close_pc' = "awaiting"
    /\ pending_at_close' = Pending
    /\ UNCHANGED <<message_queue, queue_is_none, worker_pc, worker_item,
                   enqueues, attempted, dropped, queued_before_close,
                   notMemory>>

\* The worker task is done: close drops the queue and returns.
CloseReturns ==
    /\ close_pc = "awaiting"
    /\ worker_pc = "exited"
    /\ queue_is_none' = TRUE
    /\ message_queue' = <<>>
    /\ close_pc' = "closed"
    /\ UNCHANGED <<worker_shutdown, worker_pc, worker_item, enqueues,
                   attempted, dropped, queued_before_close, pending_at_close,
                   notMemory>>

\* The steps of the worker task. The event loop resumes it after each
\* await: the wait for an item ends after 0.5 s, the sleep ends, and the
\* save returns or raises.
WorkerStep ==
    WorkerCheck \/ WorkerGet \/ WorkerTimeout \/ WorkerSaved \/ WorkerRequeue

NextMemory == EnqueueMessage \/ WorkerStep \/ Close \/ CloseReturns

(***************************************************************************)
(*                       main: the supervisor loop                          *)
(*                                                                         *)
(* main and run_agent are one coroutine; the agent runs as a task of the   *)
(* same loop and the signal handler is a callback of it.  Each action is   *)
(* the code run between two awaits.                                         *)
(***************************************************************************)

MAX_RESTARTS == 5

InitMain ==
    /\ main_pc = "loop"
    /\ restarts = 0
    /\ shutdown_event = FALSE
    /\ agent_task = "none"
    /\ should_restart = FALSE
    /\ starts = 0
    /\ ends = <<>>

\* signal_handler: SIGINT or SIGTERM sets shutdown_event.
SignalShutdown ==
    /\ main_pc # "exited"
    /\ ~shutdown_event
    /\ shutdown_event' = TRUE
    /\ UNCHANGED <<main_pc, restarts, agent_task, should_restart, starts, ends,
                   notMain>>

\* The test of the while loop, and run_agent up to asyncio.wait: a new
\* agent and a task running it.
LoopTest ==
    /\ main_pc = "loop"
    /\ IF shutdown_event
       THEN /\ main_pc' = "exited"
            /\ UNCHANGED <<agent_task, starts>>
       ELSE /\ main_pc' = "wait"
            /\ agent_task' = "running"
            /\ starts' = starts + 1
    /\ UNCHANGED <<restarts, shutdown_event, should_restart, ends, notMain>>

\* agent.run() raises.
AgentCrashes ==
    /\ agent_task = "running"
    /\ agent_task' = "crashed"
    /\ UNCHANGED <<main_pc, restarts, shutdown_event, should_restart, starts,
                   ends, notMain>>

\* agent.run() returns.
AgentReturns ==
    /\ agent_task = "running"
    /\ agent_task' = "returned"
    /\ UNCHANGED <<main_pc, restarts, shutdown_event, should_restart, starts,
                   ends, notMain>>

\* asyncio.wait returns, the agent task or the shutdown wait being done.
\* Under shutdown the agent task is cancelled and awaited; else the result
\* is decided by the task's exception and the finally clause follows.
WaitReturns ==
    /\ main_pc = "wait"
    /\ agent_task # "running" \/ shutdown_event
    /\ IF shutdown_event
       THEN /\ main_pc' = "cancel"
            /\ UNCHANGED <<should_restart, ends>>
       ELSE /\ main_pc' = "stop"
            /\ should_restart' = (agent_task = "crashed")
            /\ ends' = Append(ends, [ how |-> agent_task, shutdown |-> FALSE ])
    /\ UNCHANGED <<restarts, shutdown_event, agent_task, starts, notMain>>

\* await agent_task after cancel(): CancelledError is swallowed and the
\* result is False (so is it when the task had returned); the exception of
\* a task that had crashed is caught by "except Exception", result True.
CancelReturns ==
    /\ main_pc = "cancel"
    /\ agent_task' = IF agent_task = "running" THEN "cancelled" ELSE agent_task
    /\ should_restart' = (agent_task = "crashed")
    /\ ends' = Append(ends, [ how |-> agent_task', shutdown |-> TRUE ])
    /\ main_pc' = "stop"
    /\ UNCHANGED <<restarts, shutdown_event, starts, notMain>>

\* The finally clause of run_agent: await agent.stop() returns.
StopReturns ==
    /\ main_pc = "stop"
    /\ main_pc' = "decide"
    /\ UNCHANGED <<restarts, shutdown_event, agent_task, should_restart,
                   starts, ends, notMain>>

\* Giving up one restart later.
GivesUp_late(n) == n > MAX_RESTARTS

\* The test on the restart counter.
GivesUp(n) == n >= MAX_RESTARTS

\* main after run_agent returned: break, or count the restart and either
\* give up or sleep RESTART_DELAY_SECONDS.
Decide ==
    /\ main_pc = "decide"
    /\ IF ~should_restart \/ shutdown_event
       THEN /\ main_pc' = "exited"
            /\ UNCHANGED restarts
       ELSE /\ restarts' = restarts + 1
            /\ main_pc' = IF GivesUp(restarts + 1) THEN "exited" ELSE "sleep"
    /\ UNCHANGED <<shutdown_event, agent_task, should_restart, starts, ends,
                   notMain>>

\* await asyncio.sleep(RESTART_DELAY_SECONDS) returns.
SleepEnds ==
    /\ main_pc = "sleep"
    /\ main_pc' = "loop"
    /\ UNCHANGED <<restarts, shutdown_event, agent_task, should_restart,
                   starts, ends, notMain>>

\* The steps of main: the event loop resumes it when the wait, the
\* cancelled task, agent.stop() or the sleep is done.
MainStep ==
    LoopTest \/ WaitReturns \/ CancelReturns \/ StopReturns \/ Decide \/ SleepEnds

NextMain == SignalShutdown \/ AgentCrashes \/ AgentReturns \/ MainStep

(***************************************************************************)
(*                             Specifications                               *)
(***************************************************************************)

Init == InitRegistry /\ InitVad /\ InitStream /\ InitTurn /\ InitBridge
        /\ InitServer /\ InitRecv /\ InitMemory /\ InitMain

Next == NextStorage \/ NextVad \/ NextStream \/ NextTurn \/ NextBridge
        \/ NextServer \/ NextRecv \/ NextMemory \/ NextMain

Spec == Init /\ [][Next]_vars

\* One component at a time: the others stay as constructed.
InitRegistryAlone ==
    Init /\ noise_floor = 0 /\ handler = "ClawdbotHandler" /\ ~memory_client

InitStorageAlone == InitRegistryAlone /\ loaded = NoFile

InitVadAlone ==
    Init /\ loaded = NoFile /\ handler = "ClawdbotHandler" /\ ~memory_client

InitStreamAlone ==
    Init /\ loaded = NoFile /\ noise_floor = 0
         /\ handler = "ClawdbotHandler" /\ ~memory_client

InitTurnAlone == Init /\ loaded = NoFile /\ noise_floor = 0

InitBridgeAlone == InitStreamAlone

InitServerAlone == InitStreamAlone

InitRecvAlone == InitStreamAlone

InitMemoryAlone == InitStreamAlone

InitMainAlone == InitStreamAlone

\* The face registry alone.
SpecRegistry == InitRegistryAlone /\ [][NextRegistry]_vars

\* The face registry alone, on a storage that can fail.
SpecStorage == InitStorageAlone /\ [][NextStorage]_vars

\* The voice-activity accumulator alone.
SpecVad == InitVadAlone /\ [][NextVad]_vars

\* The audio stream alone.
SpecAudio == InitStreamAlone /\ [][NextStream]_vars

\* The audio stream with a play_audio coroutine that is always resumed.
SpecAudioLive == InitStreamAlone /\ [][NextStream]_vars /\ WF_vars(PlayStep)

\* The bridge's listener thread and playback alone.
SpecBridge == InitBridgeAlone /\ [][NextBridge]_vars

\* The voice server alone.
SpecServer == InitServerAlone /\ [][NextServer]_vars

\* ClawdbotHandler.receive alone.
SpecRecv == InitRecvAlone /\ [][NextRecv]_vars

\* The memory's save worker alone, always resumed by the event loop.
SpecMemoryLive == InitMemoryAlone /\ [][NextMemory]_vars /\ WF_vars(WorkerStep)

\* The supervisor loop alone, always resumed by the event loop.
SpecMainLive == InitMainAlone /\ [][NextMain]_vars /\ WF_vars(MainStep)

\* The processing turns of either handler alone.
SpecTurnLive ==
    InitTurnAlone /\ [][NextTurn]_vars /\ \A t \in Tasks : WF_vars(TaskStep(t))

SpecTurn == InitTurnAlone /\ [][NextTurn]_vars

(***************************************************************************)
(*                       Properties of FaceRegistry                         *)
(***************************************************************************)

LastCall(cs) == cs[Len(cs)]

\* A call was just made.
Called == Len(calls') = Len(calls) + 1

Far(a, b) == NormSq(a, b) > MATCH_THRESHOLD * MATCH_THRESHOLD

\* C1: starting from an empty registry with no last identified user,
\* identify(e1) mints and returns a new id u1; then three successive
\* identify(e2), e2 farther than MATCH_THRESHOLD from e1, return u1, u1 and,
\* only on the third call, a newly minted id u2 distinct from u1.
C1_ThirdMissMints ==
    LET n == IF Len(calls) < 4 THEN Len(calls) ELSE 4
        scenario ==
            /\ loaded = NoFile
            /\ n >= 2
            /\ \A k \in 1..n : calls[k].op = "identify"
            /\ calls[1].embedding # NoEmbedding
            /\ \A k \in 2..n : calls[k].embedding = calls[2].embedding
            /\ calls[2].embedding # NoEmbedding
            /\ Far(calls[1].embedding, calls[2].embedding)
    IN scenario =>
         /\ calls[1].ret = uuid4(1)
         /\ calls[2].ret = calls[1].ret
         /\ n >= 3 => calls[3].ret = calls[1].ret
         /\ n >= 4 => calls[4].ret = uuid4(2)

RECURSIVE MissRun(_)
\* Number of non-matching embedding samples at the end of the history, back
\* to the last call that answered with a confirmed match or with a newly
\* minted identity (samples without a face and enrollment calls are not
\* embedding samples).
MissRun(cs) ==
    IF cs = <<>> THEN 0
    ELSE LET c == LastCall(cs)
             before == SubSeq(cs, 1, Len(cs) - 1)
         IN IF c.op = "identify" /\ (c.outcome = "match" \/ c.minted) THEN 0
            ELSE IF c.op = "identify" /\ c.outcome = "miss" THEN 1 + MissRun(before)
            ELSE MissRun(before)

\* C2: while a last identified user is set, identify mints a new identity
\* from a non-matching embedding only when the sample is the
\* NEW_USER_CONSECUTIVE_MISSES-th consecutive non-matching sample with no
\* confirmed match in between; on an earlier miss it returns the last
\* identified user and leaves the identity set unchanged.
C2_NoMintBeforeThirdMiss ==
    [][ ( /\ Called
          /\ LastCall(calls').op = "identify"
          /\ LastCall(calls').outcome = "miss"
          /\ last_identified_user # NoUser
          /\ 1 + MissRun(calls) < NEW_USER_CONSECUTIVE_MISSES )
        => ( /\ LastCall(calls').ret = last_identified_user
             /\ ~LastCall(calls').minted
             /\ faces' = faces
             /\ last_identified_user' = last_identified_user )
      ]_vars

\* C9: delete_user on an existing id returns true, and afterwards identify
\* called with any of that identity's former embeddings never returns the
\* deleted id, whatever identify calls preceded the deletion (the id not
\* having been enrolled again in between).
C9_DeletedIdNeverReturned ==
    \A i \in 1..Len(calls), j \in 1..Len(calls) :
      ( /\ i < j
        /\ calls[i].op = "delete_user"
        /\ calls[i].removed # <<>>
        /\ calls[j].op = "identify"
        /\ \E k \in 1..Len(calls[i].removed) :
              calls[i].removed[k] = calls[j].embedding
        /\ \A m \in (i + 1)..(j - 1) :
              ~(calls[m].op = "register_user" /\ calls[m].user_id = calls[i].user_id) )
      => ( /\ calls[i].ret = TRUE
           /\ calls[j].ret # calls[i].user_id )

\* C10: delete_user on an id that is not in the registry returns false and
\* changes nothing: identities, embeddings, last_identified_user,
\* consecutive_misses and the persisted document are as before the call.
C10_DeleteMissingChangesNothing ==
    [][ ( /\ Called
          /\ LastCall(calls').op = "delete_user"
          /\ LastCall(calls').user_id \notin UserIds(faces) )
        => ( /\ LastCall(calls').ret = FALSE
             /\ UNCHANGED <<faces, last_identified_user, consecutive_misses,
                            last_miss_embedding, registry_file, uuid_count>> )
      ]_vars

\* delete_user of an absent id has returned false on a registry that holds
\* an identity and has a last identified user.
C10_Witness ==
    /\ calls # <<>>
    /\ LastCall(calls).op = "delete_user"
    /\ LastCall(calls).ret = FALSE
    /\ LastCall(calls).user_id \notin UserIds(faces)
    /\ faces # <<>>
    /\ last_identified_user # NoUser
    /\ registry_file = Document(faces)

\* identify was just called with the embedding that the call before it,
\* a register_user, enrolled.
IdentifiedAfterRegister(before, after) ==
    /\ Len(after) = Len(before) + 1
    /\ before # <<>>
    /\ LastCall(before).op = "register_user"
    /\ LastCall(after).op = "identify"
    /\ LastCall(after).embedding = LastCall(before).embedding

\* The identities listed before the first one with this id.
ListedBefore(fs, user_id) == 1..(FirstIndexOf(fs, user_id) - 1)

\* Some embedding of the face is this very embedding.
Stores(face, e) == \E k \in 1..Len(face.embeddings) : face.embeddings[k] = e

\* C11: from any registry state, register_user(id, emb) followed immediately
\* by identify(emb) returns exactly id.
C11_RegisterThenIdentify ==
    [][ IdentifiedAfterRegister(calls, calls')
        => LastCall(calls').ret = LastCall(calls).user_id ]_vars

\* C11, amended: register_user(id, emb) followed immediately by
\* identify(emb) returns id unless an identity listed before id stores an
\* embedding equal to emb; then the first such identity is returned (the
\* scan keeps the first identity at the smallest distance).
C11_RegisterThenIdentifyUnlessTied ==
    [][ IdentifiedAfterRegister(calls, calls')
        => LET id   == LastCall(calls).user_id
               e    == LastCall(calls).embedding
               tied == { j \in ListedBefore(faces, id) : Stores(faces[j], e) }
           IN /\ LastCall(calls').outcome = "match"
              /\ tied = {} => LastCall(calls').ret = id
              /\ tied # {} =>
                   \E j \in tied : /\ LastCall(calls').ret = faces[j].user_id
                                   /\ \A i \in tied : j <= i
      ]_vars

\* identify has returned the id just enrolled, in a registry where another
\* identity, listed first, is also within the threshold of the embedding.
C11_Witness ==
    /\ IdentifiedAfterRegister(SubSeq(calls, 1, Len(calls) - 1), calls)
    /\ LastCall(calls).ret = calls[Len(calls) - 1].user_id
    /\ Len(faces) >= 2
    /\ faces[1].user_id # LastCall(calls).ret
    /\ \E k \in 1..Len(faces[1].embeddings) :
          ~Far(faces[1].embeddings[k], LastCall(calls).embedding)

\* identify was just called with the embedding of the call before it, an
\* identify that was a confirmed match.
IdentifiedAgain(before, after) ==
    /\ Len(after) = Len(before) + 1
    /\ before # <<>>
    /\ LastCall(before).op = "identify"
    /\ LastCall(before).outcome = "match"
    /\ LastCall(after).op = "identify"
    /\ LastCall(after).embedding = LastCall(before).embedding

\* C12: identify is idempotent under repetition: when identify(e) was a
\* confirmed match and identify(e) is called again immediately, the second
\* call is a confirmed match too and returns the same user_id.
C12_IdentifyIdempotent ==
    [][ IdentifiedAgain(calls, calls')
        => /\ LastCall(calls').outcome = "match"
           /\ LastCall(calls').ret = LastCall(calls).ret ]_vars

\* The same embedding matched twice in a row an identity at capacity that
\* did not hold it: the first match stored it and evicted the embedding it
\* had matched through.
C12_Witness ==
    /\ loaded = Document(<< [ user_id |-> "kaya", embeddings |-> FullEmbeddings ] >>)
    /\ Len(calls) = 2
    /\ IdentifiedAgain(SubSeq(calls, 1, 1), calls)
    /\ calls[1].embedding = <<6, 8>>
    /\ calls[2].outcome = "match"
    /\ calls[2].ret = "kaya"
    /\ ~Stores(faces[1], <<3, 4>>)

\* The index of the identity the call just made added its embedding to
\* (0 when it added none to an identity the registry already held).
GrownIndex ==
    LET c == LastCall(calls')
    IN IF c.op = "register_user" THEN FirstIndexOf(faces, c.user_id)
       ELSE IF c.op = "identify" /\ c.outcome = "match"
       THEN BestIndex(faces, c.embedding)
       ELSE 0

\* The most recent embeddings, oldest first, after one more is added.
MostRecent(embs, e) ==
    LET all == Append(embs, e)
    IN IF Len(all) <= MAX_EMBEDDINGS_PER_USER THEN all
       ELSE SubSeq(all, Len(all) - MAX_EMBEDDINGS_PER_USER + 1, Len(all))

\* C13: no identity ever stores more than MAX_EMBEDDINGS_PER_USER
\* embeddings, and adding an embedding to a full identity evicts exactly the
\* oldest one: the identity is left with the MAX_EMBEDDINGS_PER_USER most
\* recent embeddings, in insertion order.
C13_CapacityFifo ==
    [][ /\ \A i \in 1..Len(faces') :
             Len(faces'[i].embeddings) <= MAX_EMBEDDINGS_PER_USER
        /\ (Called /\ GrownIndex # 0)
             => faces'[GrownIndex].embeddings =
                  MostRecent(faces[GrownIndex].embeddings, LastCall(calls').embedding)
      ]_vars

\* One more embedding was enrolled for an identity at capacity: its oldest
\* embedding is gone and the new one is the last.
C13_Witness ==
    /\ loaded = Document(<< [ user_id |-> "kaya", embeddings |-> FullEmbeddings ] >>)
    /\ Len(calls) = 1
    /\ calls[1].op = "register_user"
    /\ calls[1].user_id = "kaya"
    /\ calls[1].embedding = <<0, 8>>
    /\ Len(faces[1].embeddings) = MAX_EMBEDDINGS_PER_USER
    /\ faces[1].embeddings[MAX_EMBEDDINGS_PER_USER] = <<0, 8>>
    /\ ~Stores(faces[1], <<3, 4>>)

\* C14: after any sequence of identify, register_user and delete_user
\* calls, every identity held in the registry, and every identity of the
\* persisted document, has at least one embedding.
C14_EmbeddingsNeverEmpty ==
    /\ \A i \in 1..Len(faces) : faces[i].embeddings # <<>>
    /\ \A i \in 1..Len(registry_file.faces) :
          registry_file.faces[i].embeddings # <<>>

\* An anonymous id was minted for a sample without a face, an identity was
\* deleted, and the registry holds identities.
C14_Witness ==
    /\ \E k \in 1..Len(calls) :
          calls[k].op = "identify" /\ calls[k].embedding = NoEmbedding /\ calls[k].minted
    /\ \E k \in 1..Len(calls) :
          calls[k].op = "delete_user" /\ calls[k].ret = TRUE
    /\ faces # <<>>
    /\ registry_file = Document(faces)

\* The id of the identity a call added to the registry.
CreatedId(c) == IF c.op = "identify" THEN c.ret ELSE c.user_id

\* C15: user_id is globally unique and never reused: no two identities in
\* the registry share a user_id, and an id once issued to an identity (on
\* file at start, minted by identify or enrolled by register_user) is never
\* issued again to another identity, also after delete_user removed it.
C15_IdsUniqueNeverReused ==
    /\ \A i \in 1..Len(faces), j \in 1..Len(faces) :
          i # j => faces[i].user_id # faces[j].user_id
    /\ \A j \in 1..Len(calls) :
          calls[j].created =>
            /\ CreatedId(calls[j]) \notin UserIds(loaded.faces)
            /\ \A i \in 1..(j - 1) :
                  calls[i].created => CreatedId(calls[i]) # CreatedId(calls[j])

\* The ids the calls so far have returned or named.
SeenIds(cs) ==
    { cs[k].ret : k \in { n \in 1..Len(cs) : cs[n].op = "identify" } }
    \cup { cs[k].user_id : k \in { n \in 1..Len(cs) : cs[n].op # "identify" } }

\* C16: identify(None) returns last_identified_user whenever one is set,
\* without changing the identity set, consecutive_misses or the persisted
\* document; when none is set it mints a fresh anonymous id that becomes
\* last_identified_user but is not added to the identity set, and nothing
\* is persisted.
C16_IdentifyWithoutFace ==
    [][ ( /\ Called
          /\ LastCall(calls').op = "identify"
          /\ LastCall(calls').embedding = NoEmbedding )
        => IF last_identified_user # NoUser
           THEN /\ LastCall(calls').ret = last_identified_user
                /\ UNCHANGED <<faces, consecutive_misses, registry_file,
                               last_identified_user>>
           ELSE /\ LastCall(calls').minted
                /\ LastCall(calls').ret \notin
                       {NoUser} \cup UserIds(faces) \cup SeenIds(calls)
                /\ last_identified_user' = LastCall(calls').ret
                /\ UNCHANGED <<faces, registry_file>>
      ]_vars

\* Two samples without a face in a row, in a registry that holds an
\* identity: the first minted an anonymous id, the second returned it.
C16_Witness ==
    /\ Len(calls) >= 2
    /\ LastCall(calls).op = "identify"
    /\ LastCall(calls).embedding = NoEmbedding
    /\ ~LastCall(calls).minted
    /\ calls[Len(calls) - 1].op = "identify"
    /\ calls[Len(calls) - 1].embedding = NoEmbedding
    /\ calls[Len(calls) - 1].minted
    /\ LastCall(calls).ret = calls[Len(calls) - 1].ret
    /\ last_identified_user = LastCall(calls).ret
    /\ faces # <<>>
    /\ last_identified_user \notin UserIds(faces)

\* The call completed and changed the identity set: an identify that
\* appended an embedding or minted an identity, a register_user, or a
\* delete_user that removed an identity.
Mutation(c) ==
    /\ ~c.raised
    /\ \/ c.op = "register_user"
       \/ c.op = "identify" /\ (c.outcome = "match" \/ c.created)
       \/ c.op = "delete_user" /\ c.ret = TRUE

\* C17: every mutating registry operation saves synchronously before it
\* returns: after each completed identify that appended or minted an
\* identity, register_user, or delete_user that removed one, the persisted
\* document equals the in-memory identity set, and loading it gives the
\* same identities with the same ordered embeddings.
C17_SavedBeforeReturn ==
    [][ (Called /\ Mutation(LastCall(calls')))
        => /\ registry_file' = Document(faces')
           /\ load(registry_file').faces = faces' ]_vars

\* A write failed while an identity was minted, the storage recovered, and
\* a later mutation completed: the document holds every identity in
\* memory, the one of the failed call included.
C17_Witness ==
    /\ Len(calls) >= 2
    /\ calls[1].raised
    /\ calls[1].created
    /\ Mutation(LastCall(calls))
    /\ Len(faces) >= 2
    /\ registry_file = Document(faces)
    /\ load(registry_file).faces = faces

\* C18: if writing the registry to storage fails during identify or
\* register_user, the failure is absorbed: the call returns its user id (or
\* true), keeps its in-memory effects (last identified user, appended or
\* minted identity) as with a working storage, and later calls keep working
\* from the in-memory state.
C18_WriteFailureAbsorbed ==
    [][ ( /\ Called
          /\ LastCall(calls').op \in { "identify", "register_user" }
          /\ ~storage_writable )
        => LET c    == LastCall(calls')
               self == [ Self EXCEPT !.writable = TRUE ]
               ok   == IF c.op = "identify" THEN identify(self, c.embedding)
                       ELSE register_user(self, c.user_id, c.embedding)
           IN /\ ~c.raised
              /\ c.ret = ok.ret
              /\ faces' = ok.self.faces
              /\ last_identified_user' = ok.self.last_identified_user
      ]_vars

(***************************************************************************)
(*                        Properties of AudioBuffer                         *)
(***************************************************************************)

\* The numbers of the frames an utterance is made of, in order.
FramesOf(u) == [ k \in 1..Len(u.samples) |-> u.samples[k].n ]

FrameSet(u) == { u.samples[k].n : k \in 1..Len(u.samples) }

Loud(a) == a > energy_threshold

\* Number of above-threshold frames among the first j frames fed.
LoudCount(j) == Cardinality({ k \in 1..j : Loud(fed[k]) })

\* C3: fed N above-threshold frames (N >= min_speech_frames) then M
\* below-threshold frames (M >= max_silence_frames), add_frame returns an
\* utterance made of exactly the N speech frames plus the trailing silent
\* frames consumed up to the returning call: no speech frame is missing.
C3_UtteranceHasEverySpeechFrame ==
    ( /\ returned # None
      /\ Runs(fed) = 2
      /\ Loud(fed[1])
      /\ LoudCount(Len(fed)) >= min_speech_frames
      /\ Len(fed) - LoudCount(Len(fed)) >= max_silence_frames )
    => FramesOf(returned) = [ k \in 1..Len(fed) |-> k ]

RECURSIVE GateIndex(_, _)
\* Index of the frame that is the c-th above-threshold frame from frame k on
\* (one past the end of the history when there is none).
GateIndex(k, c) ==
    IF k > Len(fed) THEN k
    ELSE IF Loud(fed[k])
    THEN IF c = 1 THEN k ELSE GateIndex(k + 1, c - 1)
    ELSE GateIndex(k + 1, c)

\* The frames of short bursts: above-threshold frames that were followed by
\* a silent frame when fewer than min_speech_frames above-threshold frames
\* had been fed in all.
ShortBurstFrames ==
    LET gate == GateIndex(1, min_speech_frames)
    IN { i \in 1..(gate - 1) :
           /\ Loud(fed[i])
           /\ \E j \in (i + 1)..(gate - 1) : ~Loud(fed[j]) }

\* The numbers of the frames in the buffer and in the utterances returned.
KeptFrames ==
    { frames[k].n : k \in 1..Len(frames) }
    \cup UNION { FrameSet(utterances[u]) : u \in 1..Len(utterances) }

\* C4: when fewer than min_speech_frames above-threshold frames are followed
\* by silence, add_frame returns no utterance and the frames of the burst
\* are discarded: they are not in the buffer nor in any later utterance.
C4_ShortBurstDiscarded ==
    /\ GateIndex(1, min_speech_frames) > Len(fed)
          => (returned = None /\ utterances = <<>> /\ frames = <<>>)
    /\ ShortBurstFrames \cap KeptFrames = {}

\* A short burst was followed by silence and an utterance was returned later.
C4_Witness ==
    /\ ShortBurstFrames # {}
    /\ returned # None
    /\ Len(utterances) = 1

\* C5: for a frame sequence whose energy stays at or below the threshold
\* throughout, add_frame never returns an utterance, however long it is.
C5_SilenceNeverReturns ==
    (\A k \in 1..Len(fed) : fed[k] <= energy_threshold)
    => (returned = None /\ utterances = <<>>)

\* More than max_silence_frames frames at exactly the threshold were fed.
C5_Witness ==
    /\ Len(fed) > max_silence_frames
    /\ \A k \in 1..Len(fed) : fed[k] = energy_threshold
    /\ silence_frames > max_silence_frames

\* C6: immediately after add_frame returns an utterance the accumulator is
\* fully reset (frames empty, is_speaking false, both counters zero), as a
\* freshly created one, and no two utterances share a frame.
C6_ResetAfterUtterance ==
    /\ returned # None => Buffer = NewBuffer
    /\ \A i \in 1..Len(utterances), j \in 1..Len(utterances) :
          i < j => FrameSet(utterances[i]) \cap FrameSet(utterances[j]) = {}

\* A second utterance has just been returned.
C6_Witness ==
    /\ returned # None
    /\ Len(utterances) = 2
    /\ FrameSet(utterances[2]) # {}

\* C25: the gate opens only after min_speech_frames consecutive
\* above-threshold frames: when add_frame has just set is_speaking the last
\* min_speech_frames frames fed were all above the threshold, and a silent
\* frame fed while the gate is closed leaves the speech counter at zero.
C25_GateNeedsSustainedRun ==
    /\ (is_speaking /\ Len(frames) = 1) =>
          /\ Len(fed) >= min_speech_frames
          /\ \A k \in (Len(fed) - min_speech_frames + 1)..Len(fed) : Loud(fed[k])
    /\ (fed # <<>> /\ ~Loud(fed[Len(fed)]) /\ ~is_speaking) => speech_frames = 0

(***************************************************************************)
(*                        Properties of AudioStream                         *)
(***************************************************************************)

\* C7: while the robot is speaking (_is_speaking true, between the start
\* and the end of play_audio) audio_generator never yields a microphone
\* chunk, under every interleaving of play_audio with the generator.
C7_NoYieldWhileSpeaking ==
    gen_pc = "yielded" => ~yielded_while_speaking

\* C22: playback is cancellable. Once interrupt_speech has set the event no
\* new chunk is pushed (the push in progress completes), and _is_speaking
\* always becomes false again: after an interrupt, at the end of the
\* playback, and when a step of the playback raises.
C22_PlaybackCancellable ==
    /\ [][stop_speaking_event => ~(play_pc # "push" /\ play_pc' = "push")]_vars
    /\ stream_is_speaking ~> (~stream_is_speaking /\ play_pc = "idle")

\* A playback was interrupted after its first chunk and has returned with
\* chunks left over.
C22_Witness ==
    /\ stop_speaking_event
    /\ ~stream_is_speaking /\ play_pc = "idle"
    /\ 1 <= play_i /\ play_i < play_len

(***************************************************************************)
(*                       Properties of _process_speech                      *)
(***************************************************************************)

\* The tasks whose pipeline (transcribe, chat, speak) is in flight.
Processing == { t \in Tasks : task_pc[t] \in InFlight }

\* C8: at most one speech-processing pipeline is in flight at any time, in
\* ClawdbotHandler and in WirelessVoiceClient: a second _process_speech
\* never executes its pipeline while an earlier one has not finished.
C8_AtMostOnePipeline == Cardinality(Processing) <= 1

\* Two tasks exist at once in each handler: one in its pipeline while a
\* second waits for the lock (ClawdbotHandler), or a second one has
\* taken its first step after the first and returned at once, the first
\* being still in its pipeline (WirelessVoiceClient).
C8_Witness ==
    /\ Cardinality(Processing) = 1
    /\ \/ handler = "ClawdbotHandler" /\ lock_waiters # <<>>
       \/ /\ handler = "WirelessVoiceClient"
          /\ \E t \in Tasks : task_pc[t] = "done"
          /\ task_pc[1] \in InFlight

\* C19: every processing turn ends. Whenever the processing flag is set it
\* becomes false again, and every task that entered the pipeline reaches the
\* end of _process_speech, whatever its collaborators return or raise.
C19_TurnEnds ==
    /\ is_processing ~> ~is_processing
    /\ \A t \in Tasks : (task_pc[t] \in InFlight) ~> (task_pc[t] = "done")

\* A turn in which a collaborator raised has ended, one in which the chat
\* call failed has ended, and the flag is clear.
C19_Witness ==
    /\ ~is_processing
    /\ \E t \in Tasks : task_pc[t] = "done" /\ task_log[t].caught
    /\ \E t \in Tasks : task_pc[t] = "done" /\ task_log[t].chat = "failed"

\* C20: in a turn whose chat call failed no text is passed to _speak.
C20_SilentWhenChatFails ==
    \A t \in Tasks :
        task_log[t].chat = "failed" => ~task_log[t].spoke /\ task_pc[t] # "speak"

\* C21: ClawdbotHandler processes utterances in the order receive completed
\* them: a task is in its pipeline, or past it, only when the pipeline of
\* every utterance completed before it has ended.
C21_ProcessedInOrder ==
    handler = "ClawdbotHandler" =>
        \A t \in Tasks, u \in Tasks :
            t < u /\ task_pc[u] \in InFlight \cup { "done" } => task_pc[t] = "done"

\* Two utterances are completed, the first is in its pipeline and the second
\* waits for the lock.
C21_Witness ==
    /\ handler = "ClawdbotHandler"
    /\ \E t \in Tasks, u \in Tasks :
         t < u /\ task_pc[t] \in InFlight /\ task_pc[u] = "waiting"

(***************************************************************************)
(*                       Properties of reachy_bridge                        *)
(***************************************************************************)

\* C23: no chunk recorded by continuous_listener while play_wav_data plays
\* is accumulated or handed to send_audio_to_macos.
C23_PlaybackNotCaptured ==
    /\ \A i \in 1..Len(bridge_accumulated_chunks) :
          ~bridge_accumulated_chunks[i].echo
    /\ \A k \in 1..Len(bridge_pushed) :
          \A i \in 1..Len(bridge_pushed[k]) : ~bridge_pushed[k][i].echo

(***************************************************************************)
(*                         Properties of voice_loop                         *)
(***************************************************************************)

\* The process_speech_sequence threads that have not returned.
Running == { k \in 1..Len(pipeline_pc) : pipeline_pc[k] # PipelineDone }

\* C24: process_speech_sequence never overlaps with itself: at most one of
\* its threads is between its start and its return.
C24_OnePipelineAtATime == Cardinality(Running) <= 1

\* How many times chunk c occurs in the sequence q.
Occurrences(q, c) == Cardinality({ i \in 1..Len(q) : q[i] = c })

RECURSIVE HandedCount(_, _)
\* How many times chunk c occurs in the first n arguments handed.
HandedCount(n, c) ==
    IF n = 0 THEN 0 ELSE HandedCount(n - 1, c) + Occurrences(handed[n], c)

\* C27: every chunk accepted by POST /audio is waiting in accumulated_chunks
\* or was handed to exactly one process_speech_sequence call, never lost and
\* never handed twice.
C27_EveryChunkHandedOnce ==
    \A c \in 1..posts :
        Occurrences(accumulated_chunks, c) + HandedCount(Len(handed), c) = 1

(***************************************************************************)
(*                  Properties of ClawdbotHandler.receive                   *)
(***************************************************************************)

\* C26: input_buffer holds nothing while nobody has spoken since the last
\* utterance, and the audio handed to _process_speech begins with a frame
\* above the threshold: no frame of idle silence received before the speech
\* is flushed with it.
C26_NoFrameBeforeSpeech ==
    /\ (~recv_is_speaking /\ recv_speech_frames = 0) => input_buffer = <<>>
    /\ \A k \in 1..Len(recv_tasks) :
          recv_tasks[k] # <<>> => recv_fed[recv_tasks[k][1]]

(***************************************************************************)
(*                     Properties of ConversationMemory                     *)
(***************************************************************************)

\* C28: a message is attempted at most 1 + _max_save_retries times, a
\* message given up was attempted exactly that often and is in the queue no
\* more, and every message in the queue of a running worker is attempted,
\* whatever happens to the messages before it.
C28_RetriesBounded ==
    /\ [](\A m \in Messages : attempted[m] <= 1 + _max_save_retries)
    /\ [](\A m \in dropped :
            attempted[m] = 1 + _max_save_retries /\ m \notin Pending)
    /\ \A m \in Messages :
          (m \in Pending) ~> (attempted[m] >= 1 \/ worker_pc = "exited")

\* A message was given up after its last retry and a message queued after
\* it has been attempted.
C28_Witness ==
    \E m \in dropped : \E n \in Messages :
        m < n /\ attempted[m] = 1 + _max_save_retries /\ attempted[n] >= 1

\* C29: after close() the worker terminates; it leaves its loop only on an
\* empty queue, and when it has terminated every message put in the queue
\* before close() has been attempted.
C29_WorkerDrainsThenExits ==
    /\ worker_shutdown ~> (worker_pc = "exited")
    /\ [][worker_pc # "exited" /\ worker_pc' = "exited" => message_queue = <<>>]_vars
    /\ [](worker_pc = "exited" =>
            \A m \in queued_before_close : attempted[m] >= 1)

\* close() was called with messages waiting and the worker has terminated.
C29_Witness ==
    /\ worker_pc = "exited"
    /\ pending_at_close # {}
    /\ \A m \in pending_at_close : attempted[m] >= 1

(***************************************************************************)
(*                            Properties of main                            *)
(***************************************************************************)

\* C30: the agent is started at most MAX_RESTARTS times; it is started
\* again only after a run that ended with an exception, with shutdown_event
\* not set; and once a run has ended the loop starts the next run or ends,
\* and ends when that was the run number MAX_RESTARTS.
C30_RestartsBounded ==
    /\ [](starts <= MAX_RESTARTS)
    /\ [][starts' = starts + 1 /\ starts >= 1 =>
            /\ ~shutdown_event
            /\ ends[Len(ends)].how = "crashed"
            /\ Len(ends) = starts]_vars
    /\ (main_pc \in { "cancel", "stop", "decide", "sleep", "loop" })
          ~> (main_pc \in { "wait", "exited" })
    /\ (starts = MAX_RESTARTS /\ main_pc = "stop") ~> (main_pc = "exited")

\* The agent crashed MAX_RESTARTS times with no shutdown asked for, and the
\* loop has given up.
C30_Witness ==
    /\ main_pc = "exited"
    /\ ~shutdown_event
    /\ starts = MAX_RESTARTS
    /\ restarts = MAX_RESTARTS
    /\ \A k \in 1..Len(ends) : ends[k].how = "crashed"

====
